---- MODULE Spec2Model ----
(***************************************************************************)
(* PlanetStore gateway: the metadata store (buckets, objects,             *)
(* content_store), the storage nodes' shard files, the write paths (the    *)
(* primary API, the S3 adapter, multipart complete), the read path,        *)
(* DELETE and the two garbage collectors.                                  *)
(*                                                                         *)
(* Scheduling.  One gateway process.  Handlers declared `async def` run on *)
(* the single event-loop thread and give it up only at an `await`; the     *)
(* variable `loop` names the request that holds it.  Handlers declared     *)
(* `def`, the executor threads of a shard fan-out and the scheduler thread *)
(* of the periodic GC run beside the loop.  Every db.commit() is a step of *)
(* its own, so states between two commits of one handler are reachable.    *)
(***************************************************************************)
EXTENDS Integers, Sequences, FiniteSets, TLC

(***************************************************************************)
(* Bounds and inputs                                                       *)
(***************************************************************************)
MaxProcs == 2
MaxWrites == 2
MaxDown == 3
MaxParts == 1
MaxNow == 32
TickDays == 16

Procs == 1..MaxProcs
BucketNames == {"b1", "b2"}
KeyNames == {"k1", "k2"}
Bodies == {<<7>>, <<1, 2, 3, 4, 5>>}
\* The primary API is also given the empty body.
ApiBodies == Bodies \cup {<<>>}
Consistencies == {"strong", "eventual"}
\* The quotas PUT /buckets/{bucket}/quota is called with.
QuotaValues == {[max_size_bytes |-> 5, max_objects |-> 1]}

Null == "null"
NoProc == 0

(***************************************************************************)
(* ec.py                                                                   *)
(***************************************************************************)
K == 4
M == 6

\* Floor in place of math.ceil.
CeilDiv_Floor(a, b) == a \div b

CeilDiv(a, b) == (a + b - 1) \div b

\* data + b'\x00' * (padded_size - len(data))
Pad(data, n) == [i \in 1..n |-> IF i <= Len(data) THEN data[i] ELSE 0]

\* A shard's bytes.  A data shard is its block; a check shard stands for the
\* GF(256) combination number `num` of the K blocks `of`.
DataShard(block) == [check |-> FALSE, num |-> 0, bytes |-> block, of |-> <<>>]
CheckShard(i, blocks) == [check |-> TRUE, num |-> i, bytes |-> <<>>, of |-> blocks]

ShardLen(s) == IF s.check THEN Len(s.of[1]) ELSE Len(s.bytes)

\* zfec.Encoder(K, M).encode(blocks): the code is systematic, shards 0..K-1 are
\* the data blocks; a check shard is a function of all K blocks from which,
\* with any K-1 other shards of the same blocks, the missing block follows.
\* The result is the list of the M shards, shard i at position i+1.
ZfecEncode(blocks) ==
    [j \in 1..M |-> IF j <= K THEN DataShard(blocks[j]) ELSE CheckShard(j - 1, blocks)]

encode_data(data) ==
    LET chunk_size == CeilDiv(Len(data), K)
        padded_data == Pad(data, chunk_size * K)
        blocks == [j \in 1..K |->
                      SubSeq(padded_data, (j - 1) * chunk_size + 1, j * chunk_size)]
    IN  ZfecEncode(blocks)

Garbage == <<255, 255>>

\* A decoder that takes data shards only and raises on a check shard.
ZfecDecode_DataOnly(shards, nums) ==
    IF \/ Len(shards) # K
       \/ \E j \in 1..Len(shards) : shards[j].check \/ nums[j] \notin 0..(K - 1)
       \/ \E i, j \in 1..Len(shards) : i # j /\ nums[i] = nums[j]
    THEN [ok |-> FALSE, blocks |-> <<>>]
    ELSE [ok |-> TRUE,
          blocks |-> [i \in 1..K |->
                         shards[CHOOSE j \in 1..Len(shards) : nums[j] = i - 1].bytes]]

\* zfec.Decoder(K, M).decode(shards, nums): K shards with distinct numbers in
\* 0..M-1 and equal lengths, else an exception.  Shards of one encoding give
\* back its K blocks; shards of different encodings give bytes of neither.
ZfecDecode(shards, nums) ==
    LET n == Len(shards)
        checks == {j \in 1..n : shards[j].check}
        src == IF checks = {} THEN <<>>
               ELSE shards[CHOOSE j \in checks : TRUE].of
        consistent ==
            \A j \in 1..n :
                IF shards[j].check THEN shards[j].of = src /\ shards[j].num = nums[j]
                ELSE nums[j] < K /\ shards[j].bytes = src[nums[j] + 1]
    IN  IF \/ n # K
           \/ \E j \in 1..n : nums[j] \notin 0..(M - 1)
           \/ \E i, j \in 1..n : i # j /\ nums[i] = nums[j]
           \/ \E i, j \in 1..n : ShardLen(shards[i]) # ShardLen(shards[j])
        THEN [ok |-> FALSE, blocks |-> <<>>]
        ELSE IF checks = {}
        THEN [ok |-> TRUE,
              blocks |-> [i \in 1..K |->
                             shards[CHOOSE j \in 1..n : nums[j] = i - 1].bytes]]
        ELSE IF consistent THEN [ok |-> TRUE, blocks |-> src]
        ELSE [ok |-> TRUE, blocks |-> [i \in 1..K |-> Garbage]]

RECURSIVE Join(_, _)
Join(blocks, i) == IF i > K THEN <<>> ELSE blocks[i] \o Join(blocks, i + 1)

Take(s, n) == SubSeq(s, 1, IF n < Len(s) THEN n ELSE Len(s))

\* decode_data: [ok, data]; ok = FALSE stands for the exception it raises.
decode_data(shards, shard_nums, original_size) ==
    IF Len(shards) < K THEN [ok |-> FALSE, data |-> <<>>]
    ELSE LET r == ZfecDecode(SubSeq(shards, 1, K), SubSeq(shard_nums, 1, K))
         IN  IF r.ok THEN [ok |-> TRUE, data |-> Take(Join(r.blocks, 1), original_size)]
             ELSE [ok |-> FALSE, data |-> <<>>]

(***************************************************************************)
(* config.py                                                               *)
(***************************************************************************)
NODES_LIST == <<"node1", "node2", "node3", "node4", "node5", "node6">>
NODES == {NODES_LIST[i] : i \in 1..Len(NODES_LIST)}

\* config.get_nodes_for_shards without a region (the S3 adapter passes none):
\* [ok, nodes], the first `count` nodes in declared order.
get_nodes_for_shards(count) ==
    IF count > Len(NODES_LIST) THEN [ok |-> FALSE, nodes |-> <<>>]
    ELSE [ok |-> TRUE, nodes |-> SubSeq(NODES_LIST, 1, count)]

\* main.get_nodes_for_shards, the definition that main.py's upload_object and
\* complete_multipart call (it rebinds the name imported from config).  It
\* reads n.region, which NodeInfo lacks, when a region is given, and calls
\* random.shuffle otherwise; main.py never imports random.  For count > 0 the
\* call therefore raises (AttributeError or NameError): ok = FALSE.
main_get_nodes_for_shards(count) ==
    IF Len(NODES_LIST) < count THEN [ok |-> FALSE, nodes |-> <<>>]
    ELSE IF count > 0 THEN [ok |-> FALSE, nodes |-> <<>>]
    ELSE [ok |-> TRUE, nodes |-> <<>>]

\* config.REGIONS
REGIONS ==
    [r \in {"us-east", "eu-west", "ap-south"} |->
        CASE r = "us-east" -> <<"node1", "node2">>
          [] r = "eu-west" -> <<"node3", "node4">>
          [] r = "ap-south" -> <<"node5", "node6">>]

\* The members of a sequence.
Range(seq) == {seq[i] : i \in 1..Len(seq)}

\* A placement that takes the region's nodes only when they suffice and
\* ignores the region otherwise.
config_get_nodes_for_shards_NoFill(count, preferred_region) ==
    IF count > Len(NODES_LIST)
    THEN [ok |-> FALSE, error |-> "HTTPException(500)", nodes |-> <<>>]
    ELSE IF preferred_region \in DOMAIN REGIONS
            /\ Len(REGIONS[preferred_region]) >= count
    THEN [ok |-> TRUE, error |-> Null,
          nodes |-> SubSeq(REGIONS[preferred_region], 1, count)]
    ELSE [ok |-> TRUE, error |-> Null, nodes |-> SubSeq(NODES_LIST, 1, count)]

\* A placement that fills up from the whole node list, the region's own nodes
\* included.
config_get_nodes_for_shards_FillsAll(count, preferred_region) ==
    IF count > Len(NODES_LIST)
    THEN [ok |-> FALSE, error |-> "HTTPException(500)", nodes |-> <<>>]
    ELSE IF preferred_region = Null \/ preferred_region \notin DOMAIN REGIONS
    THEN [ok |-> TRUE, error |-> Null, nodes |-> SubSeq(NODES_LIST, 1, count)]
    ELSE LET preferred_nodes == REGIONS[preferred_region]
         IN  [ok |-> TRUE, error |-> Null,
              nodes |-> SubSeq(preferred_nodes \o NODES_LIST, 1, count)]

\* config.get_nodes_for_shards(count, preferred_region): what it returns, or
\* the HTTPException it raises.  A region that is None (Null here) or is not a
\* key of REGIONS gives the first `count` nodes.
config_get_nodes_for_shards(count, preferred_region) ==
    IF count > Len(NODES_LIST)
    THEN [ok |-> FALSE, error |-> "HTTPException(500)", nodes |-> <<>>]
    ELSE IF preferred_region = Null \/ preferred_region \notin DOMAIN REGIONS
    THEN [ok |-> TRUE, error |-> Null, nodes |-> SubSeq(NODES_LIST, 1, count)]
    ELSE LET preferred_node_ids == REGIONS[preferred_region]
             preferred_nodes == SelectSeq(preferred_node_ids, LAMBDA nid : nid \in NODES)
             other_nodes == SelectSeq(NODES_LIST,
                                      LAMBDA n : n \notin Range(preferred_node_ids))
         IN  IF Len(preferred_nodes) >= count
             THEN [ok |-> TRUE, error |-> Null, nodes |-> SubSeq(preferred_nodes, 1, count)]
             ELSE [ok |-> TRUE, error |-> Null,
                   nodes |-> preferred_nodes
                             \o SubSeq(other_nodes, 1, count - Len(preferred_nodes))]

\* main.get_nodes_for_shards(count, preferred_region), the definition the
\* primary upload and complete_multipart call.  Too few nodes: HTTPException.
\* With a region it reads n.region of the first node, which NodeInfo lacks
\* (AttributeError); without one and with count > 0 it calls random.shuffle,
\* and main.py never imports random (NameError).
main_get_nodes_for_shards_region(count, preferred_region) ==
    IF Len(NODES_LIST) < count
    THEN [ok |-> FALSE, error |-> "HTTPException(500)", nodes |-> <<>>]
    ELSE IF preferred_region # Null /\ Len(NODES_LIST) > 0
    THEN [ok |-> FALSE, error |-> "AttributeError", nodes |-> <<>>]
    ELSE IF 0 < count
    THEN [ok |-> FALSE, error |-> "NameError", nodes |-> <<>>]
    ELSE [ok |-> TRUE, error |-> Null, nodes |-> <<>>]

(***************************************************************************)
(* State                                                                   *)
(***************************************************************************)
VARIABLES
    buckets,        \* table buckets: the bucket names
    objects,        \* table objects: the ObjectVersion rows
    content_store,  \* table content_store: the ContentRows
    disk,           \* the storage nodes' files: <<node, bucket, shard_key>> -> bytes
    down,           \* the storage nodes that are unreachable now
    now,            \* the clock, in days
    nextId,         \* objects.id sequence; the row's uuid4 version_id goes with it
    nextUuid,       \* source of the S3 adapter's uuid4 upload_uuid
    writes,         \* write requests accepted so far
    req,            \* the write requests in flight, per request slot
    loop,           \* the request running on the event loop, or NoProc
    gc,             \* the scheduler thread's GC pass: its position, its result set
                    \* and count, and the last answer of POST /admin/gc
    multipart_uploads,  \* table multipart_uploads: the sessions
    part_files,     \* the gateway's staged parts: <<upload_id, part_number>> -> bytes
    nextUpload,     \* source of the sessions' uuid4 upload_id
    putLog,         \* history: <<node, bucket, shard_key>> -> the shard PUTs sent to it
    bucket_quotas,  \* table bucket_quotas: bucket -> [max_size_bytes, max_objects]
    placement,      \* a caller of get_nodes_for_shards: its arguments and what it got
    node_health,    \* HealthMonitor.node_health: node -> NodeHealthStatus
    health_job,     \* the monitor's scheduled _check_all_nodes: 0, or the index
                    \* in NODES_LIST of the node it probes next
    lifecycle,      \* the gateway process: startup_event, the two schedulers,
                    \* shutdown_event
    ec,             \* a caller of encode_data and decode_data: the blob, the
                    \* shards, the shards it decodes from and what it got
    limiter,        \* RateLimiter.requests, the clock in seconds, and the history
                    \* of the middleware's decisions
    mp              \* a caller of MultipartManager: its last call and what it got

\* The state outside the object store.
aside == <<placement, node_health, health_job, lifecycle, ec, limiter, mp>>

vars == <<buckets, objects, content_store, disk, down, now, nextId, nextUuid,
          writes, req, loop, gc, multipart_uploads, part_files, nextUpload, putLog,
          bucket_quotas, aside>>

IdleReq ==
    [pc |-> "idle", op |-> Null, bucket |-> Null, key |-> Null, body |-> <<>>,
     hash |-> <<>>, shards |-> <<>>, uuid |-> 0, obj |-> 0, status |-> 0,
     dedup |-> FALSE, puts |-> 0, fresh |-> FALSE, after |-> {},
     consistency |-> Null, headers |-> <<>>, created |-> FALSE]

InitStore ==
    /\ buckets = {}
    /\ objects = {}
    /\ content_store = {}
    /\ disk = <<>>
    /\ down = {}
    /\ now = 0
    /\ nextId = 1
    /\ nextUuid = 1
    /\ writes = 0
    /\ req = [p \in Procs |-> IdleReq]
    /\ loop = NoProc
    /\ gc = [pc |-> "idle", old_objects |-> {}, deleted_count |-> 0,
             result |-> [versions_deleted |-> 0, age_deleted |-> 0]]
    /\ multipart_uploads = {}
    /\ part_files = <<>>
    /\ nextUpload = 1
    /\ putLog = <<>>
    /\ bucket_quotas = <<>>

\* No caller of the placement function is being followed.
\* RateLimiter.__init__ and no request yet.
IPS == {"10.0.0.1", "10.0.0.2"}
NoTraffic ==
    [requests |-> [ip \in IPS |-> <<>>], time |-> 0, history |-> <<>>,
     pending |-> 0, passed |-> 0]

\* No call of the MultipartManager yet.
NoCall == [op |-> "none", upload_id |-> 0, ok |-> TRUE, error |-> "", data |-> <<>>]

\* Nothing encoded or decoded.
NoCodec ==
    [pc |-> "idle", data |-> <<>>, shard_nums |-> <<>>, shards |-> <<>>,
     decoded |-> [ok |-> FALSE, data |-> <<>>]]

NoPlacement == [impl |-> Null, count |-> 0, preferred_region |-> Null, calls |-> <<>>]

\* Python's None in a numeric field.
None == -1

\* NodeHealthStatus.__init__
UnknownHealth ==
    [status |-> "unknown", last_check |-> None, response_time_ms |-> None,
     error_message |-> <<>>]

\* The gateway after startup_event has returned: both schedulers run and the
\* monitor's initial check is over.
Serving ==
    [state |-> "Running", gc_scheduler |-> "running", health_monitor |-> "running",
     initial_check |-> 0, started |-> TRUE, gc_job |-> "idle", stopped |-> FALSE]

\* The gateway serves; every node answered the initial check with 200.
Init ==
    /\ InitStore
    /\ placement = NoPlacement
    /\ node_health = [n \in NODES |-> [UnknownHealth EXCEPT !.status = "healthy",
                                                           !.last_check = 0,
                                                           !.response_time_ms = 1]]
    /\ health_job = 0
    /\ lifecycle = Serving
    /\ limiter = NoTraffic
    /\ mp = NoCall
    /\ ec = NoCodec

(***************************************************************************)
(* Storage node (storage_node/main.py) and the transport to it            *)
(***************************************************************************)
Addr(node, bucket, shard_key) == <<node, bucket, shard_key>>

\* put_object: path.open("wb") creates or overwrites the file.
NodePut(d, a, bytes) == [x \in DOMAIN d \cup {a} |-> IF x = a THEN bytes ELSE d[x]]

\* delete_object: unlink when the file exists, "not_found" otherwise.
NodeDelete(d, as) == [x \in DOMAIN d \ as |-> d[x]]

\* requests.get(...).status_code == 200: the node answers and has the file.
Retrievable(d, dn, a) == a[1] \notin dn /\ a \in DOMAIN d

(***************************************************************************)
(* metadata.py                                                             *)
(***************************************************************************)
\* sha256(...).hexdigest(): distinct bodies have distinct digests.
Sha256(body) == <<Len(body)>> \o body

\* query(Object).filter_by(bucket_name, object_key, is_latest=True)
LatestRows(objs, bucket, key) ==
    {o \in objs : o.bucket_name = bucket /\ o.object_key = key /\ o.is_latest}

\* .first(): one of the rows as {row}, or {} when there is none.
First(rows) == IF rows = {} THEN {{}} ELSE {{r} : r \in rows}

NewObject(id, bucket, key, size, shards, t) ==
    [id |-> id, bucket_name |-> bucket, object_key |-> key, version_id |-> id,
     is_latest |-> TRUE, size_bytes |-> size, shards |-> shards,
     content_hash |-> <<>>, created_at |-> t]

\* An insert that leaves the previous latest row as it is.
put_object_metadata_NoFlip(objs, existing, id, bucket, key, size, shards, t) ==
    objs \cup {NewObject(id, bucket, key, size, shards, t)}

\* An insert that flips the latest row of every key of the bucket.
put_object_metadata_FlipsBucket(objs, existing, id, bucket, key, size, shards, t) ==
    {IF o.bucket_name = bucket THEN [o EXCEPT !.is_latest = FALSE] ELSE o : o \in objs}
        \cup {NewObject(id, bucket, key, size, shards, t)}

\* put_object_metadata in one transaction: flip `existing` (what .first()
\* returned), add the new row, commit.
put_object_metadata(objs, existing, id, bucket, key, size, shards, t) ==
    {IF o \in existing THEN [o EXCEPT !.is_latest = FALSE] ELSE o : o \in objs}
        \cup {NewObject(id, bucket, key, size, shards, t)}

\* get_object_metadata: the rows the query matches (.first() takes one).
get_object_metadata(objs, bucket, key, version_id) ==
    {o \in objs : /\ o.bucket_name = bucket
                  /\ o.object_key = key
                  /\ IF version_id # 0 THEN o.version_id = version_id ELSE o.is_latest}

\* A delete that makes the newest remaining row of the key the latest.
delete_object_metadata_Promote(objs, bucket, key) ==
    {LET rest == objs \ {victim}
         prior == {o \in rest : /\ o.bucket_name = bucket /\ o.object_key = key
                                /\ \A x \in rest :
                                      (x.bucket_name = bucket /\ x.object_key = key)
                                          => x.id <= o.id}
     IN  {IF o \in prior THEN [o EXCEPT !.is_latest = TRUE] ELSE o : o \in rest} :
     victim \in LatestRows(objs, bucket, key)}

\* delete_object_metadata: the tables it can leave, one per row .first() can
\* return; it deletes that row and touches no other.
delete_object_metadata(objs, bucket, key) ==
    {objs \ {victim} : victim \in LatestRows(objs, bucket, key)}

\* content_store rows of a hash (the SELECT ... WHERE content_hash = :hash)
ContentRows(cs, hash) == {c \in cs : c.content_hash = hash}

\* A caller of MetadataManager.put_object_metadata(bucket, key, size, shards).
MaxRows == 4
ObjectSizes == {1, 5}

CallPutObjectMetadata(bucket, key, size) ==
    /\ nextId <= MaxRows
    /\ \E existing \in First(LatestRows(objects, bucket, key)) :
          objects' = put_object_metadata(objects, existing, nextId, bucket, key,
                                         size, <<>>, now)
    /\ nextId' = nextId + 1
    /\ UNCHANGED <<buckets, content_store, disk, down, now, nextUuid, writes, req,
                   loop, gc, multipart_uploads, part_files, nextUpload, putLog,
                   bucket_quotas, aside>>

(***************************************************************************)
(* quota_manager.py                                                        *)
(***************************************************************************)
\* The default limits of the global QuotaManager.  int(10.0 * 1024^3) bytes is
\* beyond the integers of the checker; the largest of them stands for it (no
\* sum of sizes comes near either number).
default_max_size_bytes == 2147483647
default_max_objects == 10000

\* get_quota: the bucket's row of bucket_quotas, or the defaults.
get_quota(quotas, bucket) ==
    IF bucket \in DOMAIN quotas THEN quotas[bucket]
    ELSE [max_size_bytes |-> default_max_size_bytes,
          max_objects |-> default_max_objects]

RECURSIVE SumSizes(_)
\* COALESCE(SUM(size_bytes), 0)
SumSizes(rows) ==
    IF rows = {} THEN 0
    ELSE LET o == CHOOSE x \in rows : TRUE IN o.size_bytes + SumSizes(rows \ {o})

\* The rows the usage query counts: bucket_name = :bucket AND is_latest = true
LatestOfBucket(objs, bucket) == {o \in objs : o.bucket_name = bucket /\ o.is_latest}

\* The headers of a 507 that names the usage before the write as used.
quota_headers_CurrentUsage(objs, quotas, bucket, additional_size) ==
    LET current == LatestOfBucket(objs, bucket)
        quota == get_quota(quotas, bucket)
    IN  IF SumSizes(current) + additional_size > quota.max_size_bytes
        THEN <<SumSizes(current), quota.max_size_bytes>>
        ELSE <<Cardinality(current), quota.max_objects>>

\* The headers <<X-Quota-Used, X-Quota-Limit>> of the HTTPException(507) that
\* check_quota raises: the size dimension is tested first.
quota_headers(objs, quotas, bucket, additional_size) ==
    LET current == LatestOfBucket(objs, bucket)
        quota == get_quota(quotas, bucket)
        new_size == SumSizes(current) + additional_size
        new_objects == Cardinality(current) + (IF additional_size > 0 THEN 1 ELSE 0)
    IN  IF new_size > quota.max_size_bytes
        THEN <<new_size, quota.max_size_bytes>>
        ELSE <<new_objects, quota.max_objects>>

\* check_quota: TRUE when it returns, FALSE when it raises 507.
check_quota(objs, quotas, bucket, additional_size) ==
    LET current == LatestOfBucket(objs, bucket)
        current_objects == Cardinality(current)
        current_size == SumSizes(current)
        quota == get_quota(quotas, bucket)
        new_size == current_size + additional_size
        new_objects == current_objects + (IF additional_size > 0 THEN 1 ELSE 0)
    IN  ~(new_size > quota.max_size_bytes) /\ ~(new_objects > quota.max_objects)

(***************************************************************************)
(* Write paths                                                             *)
(***************************************************************************)
SetReq(p, r) == [req EXCEPT ![p] = r]

\* The requests that have answered and are still held by their clients.
Answered == {q \in Procs : req[q].pc = "done"}

StartReq(op, bucket, key, body) ==
    [IdleReq EXCEPT !.op = op, !.bucket = bucket, !.key = key, !.body = body,
                    !.hash = Sha256(body),
                    !.fresh = (ContentRows(content_store, Sha256(body)) = {}),
                    !.after = Answered]

\* UPDATE content_store SET refcount = refcount + 1 WHERE content_hash = :hash
IncrRefcount(cs, hash) ==
    {IF c.content_hash = hash THEN [c EXCEPT !.refcount = @ + 1] ELSE c : c \in cs}

\* A shard key without the per-upload uuid: f"{key}/{i}"
S3ShardKey_NoUuid(key, uuid, i) == <<key, 0, i>>

\* The shard key of shard i of an S3 PutObject: f"{key}/{upload_uuid}/{i}"
S3ShardKey(key, uuid, i) == <<key, uuid, i>>

\* s3_api.put_object_s3 up to its first shard PUT: bucket check, digest,
\* dedup lookup; on a hit the refcount UPDATE and its commit.
S3PutBegin(p, bucket, key, body) ==
    /\ req[p].pc = "idle"
    /\ loop = NoProc
    /\ writes < MaxWrites
    /\ writes' = writes + 1
    /\ LET r == [StartReq("s3", bucket, key, body) EXCEPT !.consistency = "strong"]
           existing_content == ContentRows(content_store, r.hash)
       IN  IF bucket \notin buckets
           THEN /\ req' = SetReq(p, [r EXCEPT !.pc = "done", !.status = 404])
                /\ UNCHANGED <<content_store, nextUuid, loop>>
           ELSE IF existing_content # {}
           THEN /\ \E c \in existing_content :
                     req' = SetReq(p, [r EXCEPT !.pc = "hit_ref", !.shards = c.shards,
                                                !.dedup = TRUE])
                /\ content_store' = IncrRefcount(content_store, r.hash)
                /\ loop' = p
                /\ UNCHANGED nextUuid
           ELSE /\ get_nodes_for_shards(M).ok
                /\ req' = SetReq(p, [r EXCEPT !.pc = "fanout", !.uuid = nextUuid])
                /\ nextUuid' = nextUuid + 1
                /\ UNCHANGED <<content_store, loop>>
    /\ UNCHANGED <<buckets, objects, disk, down, now, nextId, gc, multipart_uploads,
                   part_files, nextUpload, putLog,
                   bucket_quotas, aside>>

\* A layout of the attempted placement, failed PUTs included.
shard_meta_Attempted(results, okIdx) == results

\* shard_meta: the entries of the results whose PUT succeeded.
shard_meta(results, okIdx) == SelectSeq(results, LAMBDA m : m.index \in okIdx)

\* upload_shard_real for every i, awaited with asyncio.gather: six PUTs, one
\* per node of the placement; a PUT to an unreachable node fails and only
\* lacks from `successful`.
S3PutShards(p) ==
    /\ req[p].pc = "fanout"
    /\ LET r == req[p]
           nodes == get_nodes_for_shards(M).nodes
           shards_data == encode_data(r.body)
           target(i) == Addr(nodes[i + 1], r.bucket, S3ShardKey(r.key, r.uuid, i))
           okIdx == {i \in 0..(M - 1) : nodes[i + 1] \notin down}
           stored == {target(i) : i \in okIdx}
           results == [j \in 1..M |-> [index |-> j - 1, node_id |-> nodes[j],
                                          shard_key |-> S3ShardKey(r.key, r.uuid, j - 1)]]
       IN  /\ disk' = [a \in DOMAIN disk \cup stored |->
                          IF a \in stored
                          THEN shards_data[(CHOOSE i \in okIdx : target(i) = a) + 1]
                          ELSE disk[a]]
           /\ putLog' = [a \in DOMAIN putLog \cup {target(i) : i \in 0..(M - 1)} |->
                            Cardinality({i \in 0..(M - 1) : target(i) = a})
                            + (IF a \in DOMAIN putLog THEN putLog[a] ELSE 0)]
           /\ req' = SetReq(p, [r EXCEPT !.pc = "gathered", !.puts = M,
                                         !.shards = shard_meta(results, okIdx)])
    /\ UNCHANGED <<buckets, objects, content_store, down, now, nextId, nextUuid,
                   writes, loop, gc, multipart_uploads, part_files, nextUpload,
                   bucket_quotas, aside>>

\* A quorum check that comes after the INSERT into content_store.
S3PutCommit_InsertFirst(p) ==
    /\ req[p].pc = "gathered"
    /\ loop = NoProc
    /\ LET r == req[p]
       IN  /\ content_store' = content_store \cup
                  {[content_hash |-> r.hash, size_bytes |-> Len(r.body),
                    shards |-> r.shards, refcount |-> 1]}
           /\ IF Len(r.shards) < 4
              THEN /\ req' = SetReq(p, [r EXCEPT !.pc = "done", !.status = 502])
                   /\ UNCHANGED loop
              ELSE /\ req' = SetReq(p, [r EXCEPT !.pc = "miss_content"])
                   /\ loop' = p
    /\ UNCHANGED <<buckets, objects, disk, down, now, nextId, nextUuid, writes, gc,
                   multipart_uploads, part_files, nextUpload, putLog,
                   bucket_quotas, aside>>

\* put_object_s3 after the gather: the quorum check (4), then the INSERT into
\* content_store and its commit.  content_hash is the table's key: a second
\* INSERT of a hash raises and the request ends 500.
S3PutCommit(p) ==
    /\ req[p].pc = "gathered"
    /\ loop = NoProc
    /\ LET r == req[p]
       IN  IF Len(r.shards) < 4
           THEN /\ req' = SetReq(p, [r EXCEPT !.pc = "done", !.status = 502])
                /\ UNCHANGED <<content_store, loop>>
           ELSE IF ContentRows(content_store, r.hash) # {}
           THEN /\ req' = SetReq(p, [r EXCEPT !.pc = "done", !.status = 500])
                /\ UNCHANGED <<content_store, loop>>
           ELSE /\ content_store' = content_store \cup
                      {[content_hash |-> r.hash, size_bytes |-> Len(r.body),
                        shards |-> r.shards, refcount |-> 1]}
                /\ req' = SetReq(p, [r EXCEPT !.pc = "miss_content"])
                /\ loop' = p
    /\ UNCHANGED <<buckets, objects, disk, down, now, nextId, nextUuid, writes, gc,
                   multipart_uploads, part_files, nextUpload, putLog,
                   bucket_quotas, aside>>

\* meta_mgr.put_object_metadata(bucket, key, size, shards) of a write, on the
\* hit path (after the refcount commit) and on the miss path (after the
\* content_store commit), S3 adapter and primary API alike.
WriteMetadata(p) ==
    /\ req[p].pc \in {"hit_ref", "miss_content"}
    /\ loop = p
    /\ LET r == req[p]
       IN  /\ \E existing \in First(LatestRows(objects, r.bucket, r.key)) :
                objects' = put_object_metadata(objects, existing, nextId, r.bucket,
                                               r.key, Len(r.body), r.shards, now)
           /\ req' = SetReq(p, [r EXCEPT !.pc = "meta", !.obj = nextId])
    /\ nextId' = nextId + 1
    /\ UNCHANGED <<buckets, content_store, disk, down, now, nextUuid, writes, loop,
                   gc, multipart_uploads, part_files, nextUpload, putLog,
                   bucket_quotas, aside>>

\* UPDATE objects SET content_hash = :hash WHERE id = :obj_id, its commit, and
\* the answer (the handler gives up the loop at `await manager.broadcast`).
WriteContentHash(p) ==
    /\ req[p].pc = "meta"
    /\ loop = p
    /\ objects' = {IF o.id = req[p].obj THEN [o EXCEPT !.content_hash = req[p].hash]
                   ELSE o : o \in objects}
    /\ req' = SetReq(p, [req[p] EXCEPT !.pc = "done", !.status = 200])
    /\ loop' = NoProc
    /\ UNCHANGED <<buckets, content_store, disk, down, now, nextId, nextUuid, writes,
                   gc, multipart_uploads, part_files, nextUpload, putLog,
                   bucket_quotas, aside>>

\* main.upload_object up to `await file.read()`: get_bucket, create_bucket.
UploadEnsureBucket(p, bucket, key, body, consistency) ==
    /\ req[p].pc = "idle"
    /\ loop = NoProc
    /\ writes < MaxWrites
    /\ writes' = writes + 1
    /\ buckets' = buckets \cup {bucket}
    /\ req' = SetReq(p, [StartReq("api", bucket, key, body)
                             EXCEPT !.pc = "read", !.consistency = consistency,
                                    !.created = (bucket \notin buckets)])
    /\ UNCHANGED <<objects, content_store, disk, down, now, nextId, nextUuid, loop,
                   gc, multipart_uploads, part_files, nextUpload, putLog,
                   bucket_quotas, aside>>

\* main.upload_object from the digest on: the quota gate (507 when check_quota
\* raises), dedup lookup; on a hit the refcount UPDATE and its commit; on a
\* miss encode_data and then main.get_nodes_for_shards, whose exception ends
\* the request 500.
UploadLookup(p) ==
    /\ req[p].pc = "read"
    /\ loop = NoProc
    /\ LET r == [StartReq("api", req[p].bucket, req[p].key, req[p].body)
                    EXCEPT !.after = req[p].after, !.consistency = req[p].consistency,
                           !.created = req[p].created]
           existing_content == ContentRows(content_store, r.hash)
       IN  IF ~check_quota(objects, bucket_quotas, r.bucket, Len(r.body))
           THEN /\ req' = SetReq(p, [r EXCEPT !.pc = "done", !.status = 507,
                                                !.headers = quota_headers(objects,
                                                    bucket_quotas, r.bucket, Len(r.body))])
                /\ UNCHANGED <<content_store, loop>>
           ELSE IF existing_content # {}
           THEN /\ \E c \in existing_content :
                     req' = SetReq(p, [r EXCEPT !.pc = "hit_ref", !.shards = c.shards,
                                                !.dedup = TRUE])
                /\ content_store' = IncrRefcount(content_store, r.hash)
                /\ loop' = p
           ELSE /\ ~main_get_nodes_for_shards(Len(encode_data(r.body))).ok
                /\ req' = SetReq(p, [r EXCEPT !.pc = "done", !.status = 500])
                /\ UNCHANGED <<content_store, loop>>
    /\ UNCHANGED <<buckets, objects, disk, down, now, nextId, nextUuid, writes, gc,
                   multipart_uploads, part_files, nextUpload, putLog,
                   bucket_quotas, aside>>

\* The client has its answer; the request slot is free again.
Return(p) ==
    /\ req[p].pc = "done"
    /\ req' = SetReq(p, IdleReq)
    /\ UNCHANGED <<buckets, objects, content_store, disk, down, now, nextId,
                   nextUuid, writes, loop, gc, multipart_uploads, part_files,
                   nextUpload, putLog,
                   bucket_quotas, aside>>

\* POST /buckets and the S3 adapter's CreateBucket, for a name not yet taken
\* (a taken name changes nothing: buckets.name is unique).
CreateBucket(bucket) ==
    /\ bucket \notin buckets
    /\ buckets' = buckets \cup {bucket}
    /\ UNCHANGED <<objects, content_store, disk, down, now, nextId, nextUuid, writes,
                   req, loop, gc, multipart_uploads, part_files, nextUpload, putLog,
                   bucket_quotas, aside>>

\* PUT /buckets/{bucket}/quota: set_quota upserts the bucket's row.
SetBucketQuota(bucket, quota) ==
    /\ get_quota(bucket_quotas, bucket) # quota
    /\ bucket_quotas' = [b \in DOMAIN bucket_quotas \cup {bucket} |->
                            IF b = bucket THEN quota ELSE bucket_quotas[b]]
    /\ UNCHANGED <<buckets, objects, content_store, disk, down, now, nextId, nextUuid,
                   writes, req, loop, gc, multipart_uploads, part_files, nextUpload,
                   putLog, aside>>

(***************************************************************************)
(* Read path                                                               *)
(***************************************************************************)
RECURSIVE SortByIndex(_)
\* shard_meta.sort(key=lambda x: x["index"])
SortByIndex(s) ==
    IF s = <<>> THEN <<>>
    ELSE LET lo == CHOOSE j \in 1..Len(s) :
                       /\ \A i \in 1..Len(s) : s[j].index <= s[i].index
                       /\ \A i \in 1..(j - 1) : s[i].index # s[j].index
         IN  <<s[lo]>> \o SortByIndex(SubSeq(s, 1, lo - 1) \o SubSeq(s, lo + 1, Len(s)))

RECURSIVE FetchShards_StopAtFailure(_, _, _, _, _)
\* A fetch loop that gives up at the first shard it cannot get.
FetchShards_StopAtFailure(d, dn, bucket, metas, acc) ==
    IF metas = <<>> \/ Len(acc) >= K THEN acc
    ELSE LET sm == Head(metas)
             a == Addr(sm.node_id, bucket, sm.shard_key)
         IN  IF sm.node_id \in NODES /\ Retrievable(d, dn, a)
             THEN FetchShards_StopAtFailure(d, dn, bucket, Tail(metas),
                      Append(acc, [index |-> sm.index, data |-> d[a]]))
             ELSE acc

RECURSIVE FetchShards(_, _, _, _, _)
\* The loop of download_object: GET shard after shard until K have arrived.
FetchShards(d, dn, bucket, metas, acc) ==
    IF metas = <<>> \/ Len(acc) >= K THEN acc
    ELSE LET sm == Head(metas)
             a == Addr(sm.node_id, bucket, sm.shard_key)
         IN  FetchShards(d, dn, bucket, Tail(metas),
                 IF sm.node_id \in NODES /\ Retrievable(d, dn, a)
                 THEN Append(acc, [index |-> sm.index, data |-> d[a]])
                 ELSE acc)

\* download_object once get_object_metadata has returned row obj.
ReadObject(d, dn, obj) ==
    LET fetched == FetchShards(d, dn, obj.bucket_name, SortByIndex(obj.shards), <<>>)
        retrieved_shards == [j \in 1..Len(fetched) |-> fetched[j].data]
        retrieved_indices == [j \in 1..Len(fetched) |-> fetched[j].index]
        dec == decode_data(retrieved_shards, retrieved_indices, obj.size_bytes)
    IN  IF Len(fetched) < K THEN [status |-> 502, data |-> <<>>]
        ELSE IF ~dec.ok THEN [status |-> 500, data |-> <<>>]
        ELSE [status |-> 200, data |-> dec.data]

\* The answers download_object(bucket, key, version_id) can give in a state
\* (version_id = 0: none given).
GetAnswers(objs, d, dn, bucket, key, version_id) ==
    LET rows == get_object_metadata(objs, bucket, key, version_id)
    IN  IF rows = {} THEN {[status |-> 404, data |-> <<>>]}
        ELSE {ReadObject(d, dn, obj) : obj \in rows}

(***************************************************************************)
(* DELETE and garbage collection                                           *)
(***************************************************************************)
\* The files the shard DELETEs of rows `rows` remove: one DELETE per layout
\* entry, at the row's own bucket; a request to an unreachable node is lost.
DeleteTargets(rows, dn) ==
    UNION {{Addr(o.shards[j].node_id, o.bucket_name, o.shards[j].shard_key) :
               j \in {i \in 1..Len(o.shards) : o.shards[i].node_id \in NODES \ dn}} :
           o \in rows}

\* main.delete_object: the latest row, a DELETE for each of its shards, then
\* delete_object_metadata (which looks the latest row up again).
DeleteObject(bucket, key) ==
    /\ loop = NoProc
    /\ LatestRows(objects, bucket, key) # {}
    /\ \E obj \in LatestRows(objects, bucket, key) :
          disk' = NodeDelete(disk, DeleteTargets({obj}, down))
    /\ objects' \in delete_object_metadata(objects, bucket, key)
    /\ UNCHANGED <<buckets, content_store, down, now, nextId, nextUuid, writes, req,
                   loop, gc, multipart_uploads, part_files, nextUpload, putLog,
                   bucket_quotas, aside>>

\* SELECT ... FROM objects WHERE is_latest = false
\*                           AND created_at < NOW() - INTERVAL '7 days'
OldObjects(objs, t) == {o \in objs : ~o.is_latest /\ o.created_at < t - 7}

\* The scheduled pass (startup_event.run_gc) on the scheduler's thread: the
\* SELECT of the non-latest rows older than 7 days.
ScheduledGcSelect ==
    /\ lifecycle.gc_scheduler = "running"
    /\ lifecycle.gc_job = "idle"
    /\ gc.pc = "idle"
    /\ LET old_objects == OldObjects(objects, now)
       IN  /\ old_objects # {}
           /\ gc' = [gc EXCEPT !.pc = "sweep", !.old_objects = old_objects]
    /\ UNCHANGED <<buckets, objects, content_store, disk, down, now, nextId,
                   nextUuid, writes, req, loop, multipart_uploads, part_files,
                   nextUpload, putLog,
                   bucket_quotas, aside>>

\* The scheduled pass, after the SELECT: per row the shard DELETEs and
\* DELETE FROM objects WHERE id = :id; one commit at the end.  The pass returns
\* deleted_count, which GCScheduler._run_gc logs.
ScheduledGcSweep ==
    /\ gc.pc = "sweep"
    /\ disk' = NodeDelete(disk, DeleteTargets(gc.old_objects, down))
    /\ objects' = {o \in objects : o.id \notin {x.id : x \in gc.old_objects}}
    /\ gc' = [gc EXCEPT !.pc = "idle", !.old_objects = {},
                         !.deleted_count = Cardinality(gc.old_objects)]
    /\ UNCHANGED <<buckets, content_store, down, now, nextId, nextUuid, writes, req,
                   loop, multipart_uploads, part_files, nextUpload, putLog,
                   bucket_quotas, aside>>

\* gc_service.cleanup_old_versions: rows ordered per key by created_at
\* descending (the order of their ids); a non-latest row counted after the
\* first MAX_VERSIONS_PER_OBJECT rows of its key goes.  The limit is read from
\* the environment (MAX_VERSIONS, 5 when unset); the gateway modelled here
\* runs with a limit that MaxWrites versions of a key can exceed.
MAX_VERSIONS_PER_OBJECT == 1
RETENTION_DAYS == 30

VersionCount(objs, o) ==
    Cardinality({x \in objs : /\ x.bucket_name = o.bucket_name
                              /\ x.object_key = o.object_key
                              /\ x.id >= o.id})

\* A version-count pass that tests version_count >= MAX_VERSIONS_PER_OBJECT.
OldVersions_AtLimit(objs) ==
    {o \in objs : ~o.is_latest /\ VersionCount(objs, o) >= MAX_VERSIONS_PER_OBJECT}

OldVersions(objs) ==
    {o \in objs : ~o.is_latest /\ VersionCount(objs, o) > MAX_VERSIONS_PER_OBJECT}

\* An age pass without the filter is_latest == False.
AgedVersions_AnyRow(objs, t) ==
    {o \in objs : o.created_at < t - RETENTION_DAYS}

\* gc_service.cleanup_by_age: non-latest rows older than RETENTION_DAYS.
AgedVersions(objs, t) ==
    {o \in objs : ~o.is_latest /\ o.created_at < t - RETENTION_DAYS}

\* POST /admin/gc: gc_service.run_gc, cleanup_old_versions and then
\* cleanup_by_age, each with its shard DELETEs and its commit; the answer is
\* {"versions_deleted": v_deleted, "age_deleted": a_deleted}.
TriggerGc ==
    /\ loop = NoProc
    /\ LET v == OldVersions(objects)
           objs1 == objects \ v
           disk1 == NodeDelete(disk, DeleteTargets(v, down))
           a == AgedVersions(objs1, now)
       IN  /\ objects' = objs1 \ a
           /\ disk' = NodeDelete(disk1, DeleteTargets(a, down))
           /\ gc' = [gc EXCEPT !.result = [versions_deleted |-> Cardinality(v),
                                           age_deleted |-> Cardinality(a)]]
    /\ UNCHANGED <<buckets, content_store, down, now, nextId, nextUuid, writes, req,
                   loop, multipart_uploads, part_files, nextUpload, putLog,
                   bucket_quotas, aside>>

(***************************************************************************)
(* Multipart upload (multipart.py, main.py)                                *)
(***************************************************************************)
Session(upload_id) == {u \in multipart_uploads : u.upload_id = upload_id}

\* POST .../uploads: MultipartManager.initiate_upload
InitiateMultipart(bucket, key) ==
    /\ loop = NoProc
    /\ writes < MaxWrites
    /\ writes' = writes + 1
    /\ multipart_uploads' = multipart_uploads \cup
          {[upload_id |-> nextUpload, bucket_name |-> bucket, object_key |-> key,
            parts |-> <<>>]}
    /\ nextUpload' = nextUpload + 1
    /\ UNCHANGED <<buckets, objects, content_store, disk, down, now, nextId, nextUuid,
                   req, loop, gc, part_files, putLog,
                   bucket_quotas, aside>>

\* PUT .../uploads/{upload_id}/parts/{part_number}: MultipartManager.upload_part
\* writes the part's file and appends the part to the session's list.
UploadPart(upload_id, part_number, data) ==
    /\ loop = NoProc
    /\ \E u \in Session(upload_id) :
          /\ Len(u.parts) < MaxParts
          /\ part_files' = [f \in DOMAIN part_files \cup {<<upload_id, part_number>>} |->
                               IF f = <<upload_id, part_number>> THEN data
                               ELSE part_files[f]]
          /\ multipart_uploads' = (multipart_uploads \ {u}) \cup
                {[u EXCEPT !.parts = Append(@, [part_number |-> part_number,
                                                size |-> Len(data),
                                                path |-> <<upload_id, part_number>>])]}
    /\ UNCHANGED <<buckets, objects, content_store, disk, down, now, nextId, nextUuid,
                   writes, req, loop, gc, nextUpload, putLog,
                   bucket_quotas, aside>>

\* MultipartManager.complete_upload and abort_upload both end the session:
\* its part files are removed and its row is deleted.
EndSession(u) ==
    /\ part_files' = [f \in DOMAIN part_files \ {u.parts[j].path : j \in 1..Len(u.parts)}
                         |-> part_files[f]]
    /\ multipart_uploads' = multipart_uploads \ {u}

\* POST .../uploads/{upload_id}/complete for the bucket of the URL:
\* complete_upload ends the session, the bucket is created when missing,
\* the data is encoded, and main.get_nodes_for_shards raises: 500, and
\* neither a shard PUT nor put_object_metadata is reached.
CompleteMultipart(bucket, upload_id) ==
    /\ loop = NoProc
    /\ \E u \in Session(upload_id) : EndSession(u)
    /\ buckets' = buckets \cup {bucket}
    /\ ~main_get_nodes_for_shards(M).ok
    /\ UNCHANGED <<objects, content_store, disk, down, now, nextId, nextUuid, writes,
                   req, loop, gc, nextUpload, putLog,
                   bucket_quotas, aside>>

\* DELETE .../uploads/{upload_id}
AbortMultipart(upload_id) ==
    /\ loop = NoProc
    /\ \E u \in Session(upload_id) : EndSession(u)
    /\ UNCHANGED <<buckets, objects, content_store, disk, down, now, nextId, nextUuid,
                   writes, req, loop, gc, nextUpload, putLog,
                   bucket_quotas, aside>>

(***************************************************************************)
(* multipart.py: the MultipartManager's methods and a caller of them       *)
(***************************************************************************)
MaxUploads == 2
MaxPartCalls == 3
PartNumbers == {1, 2}
PartData == {<<1>>, <<2, 2>>}

RECURSIVE InsertPart(_, _)
\* part goes behind the parts whose part_number is not greater.
InsertPart(sorted, part) ==
    IF sorted = <<>> THEN <<part>>
    ELSE IF Head(sorted).part_number <= part.part_number
    THEN <<Head(sorted)>> \o InsertPart(Tail(sorted), part)
    ELSE <<part>> \o sorted

RECURSIVE SortParts(_)
\* parts.sort(key=lambda x: x["part_number"]): a stable sort.
SortParts(parts) ==
    IF parts = <<>> THEN <<>>
    ELSE InsertPart(SortParts(SubSeq(parts, 1, Len(parts) - 1)), parts[Len(parts)])

RECURSIVE ReadParts(_, _)
\* full_data += f.read(), for each part of the list.
ReadParts(parts, files) ==
    IF parts = <<>> THEN <<>>
    ELSE files[Head(parts).path] \o ReadParts(Tail(parts), files)

RemoveParts(parts, files) ==
    [f \in DOMAIN files \ {parts[j].path : j \in 1..Len(parts)} |-> files[f]]

\* MultipartManager.upload_part: [ok, error, uploads, files].
upload_part(uploads, files, upload_id, part_number, data) ==
    LET found == {u \in uploads : u.upload_id = upload_id}
    IN  IF found = {}
        THEN [ok |-> FALSE, error |-> "Upload not found", uploads |-> uploads,
              files |-> files]
        ELSE LET upload == CHOOSE u \in found : TRUE
                 part_path == <<upload_id, part_number>>
             IN  [ok |-> TRUE, error |-> "",
                  uploads |-> (uploads \ {upload}) \cup
                      {[upload EXCEPT !.parts = Append(@, [part_number |-> part_number,
                                                          size |-> Len(data),
                                                          path |-> part_path])]},
                  files |-> [f \in DOMAIN files \cup {part_path} |->
                                IF f = part_path THEN data ELSE files[f]]]

\* A complete_upload that deletes the session's row and leaves its files.
complete_upload_KeepsFiles(uploads, files, upload_id) ==
    LET found == {u \in uploads : u.upload_id = upload_id}
    IN  IF found = {}
        THEN [ok |-> FALSE, error |-> "Upload not found", data |-> <<>>,
              uploads |-> uploads, files |-> files]
        ELSE LET upload == CHOOSE u \in found : TRUE
                 parts == SortParts(upload.parts)
             IN  [ok |-> TRUE, error |-> "", data |-> ReadParts(parts, files),
                  uploads |-> uploads \ {upload}, files |-> files]

\* MultipartManager.complete_upload: [ok, error, data, uploads, files].
complete_upload(uploads, files, upload_id) ==
    LET found == {u \in uploads : u.upload_id = upload_id}
    IN  IF found = {}
        THEN [ok |-> FALSE, error |-> "Upload not found", data |-> <<>>,
              uploads |-> uploads, files |-> files]
        ELSE LET upload == CHOOSE u \in found : TRUE
                 parts == SortParts(upload.parts)
             IN  [ok |-> TRUE, error |-> "", data |-> ReadParts(parts, files),
                  uploads |-> uploads \ {upload}, files |-> RemoveParts(parts, files)]

\* MultipartManager.abort_upload: [uploads, files].
abort_upload(uploads, files, upload_id) ==
    LET found == {u \in uploads : u.upload_id = upload_id}
    IN  IF found = {}
        THEN [uploads |-> uploads, files |-> files]
        ELSE LET upload == CHOOSE u \in found : TRUE
             IN  [uploads |-> uploads \ {upload},
                  files |-> RemoveParts(upload.parts, files)]

\* mp_manager.initiate_upload(bucket, key)
CallInitiateUpload(bucket, key) ==
    /\ nextUpload <= MaxUploads
    /\ multipart_uploads' = multipart_uploads \cup
          {[upload_id |-> nextUpload, bucket_name |-> bucket, object_key |-> key,
            parts |-> <<>>]}
    /\ nextUpload' = nextUpload + 1
    /\ mp' = [op |-> "initiate_upload", upload_id |-> nextUpload, ok |-> TRUE,
              error |-> "", data |-> <<>>]
    /\ UNCHANGED <<buckets, objects, content_store, disk, down, now, nextId,
                   nextUuid, writes, req, loop, gc, part_files, putLog,
                   bucket_quotas, placement, node_health, health_job, lifecycle,
                   ec, limiter>>

\* mp_manager.upload_part(upload_id, part_number, data)
CallUploadPart(upload_id, part_number, data) ==
    /\ \A u \in Session(upload_id) : Len(u.parts) < MaxPartCalls
    /\ LET r == upload_part(multipart_uploads, part_files, upload_id, part_number, data)
       IN  /\ multipart_uploads' = r.uploads
           /\ part_files' = r.files
           /\ mp' = [op |-> "upload_part", upload_id |-> upload_id, ok |-> r.ok,
                     error |-> r.error, data |-> <<>>]
    /\ UNCHANGED <<buckets, objects, content_store, disk, down, now, nextId,
                   nextUuid, writes, req, loop, gc, nextUpload, putLog,
                   bucket_quotas, placement, node_health, health_job, lifecycle,
                   ec, limiter>>

\* mp_manager.complete_upload(upload_id)
CallCompleteUpload(upload_id) ==
    /\ LET r == complete_upload(multipart_uploads, part_files, upload_id)
       IN  /\ multipart_uploads' = r.uploads
           /\ part_files' = r.files
           /\ mp' = [op |-> "complete_upload", upload_id |-> upload_id, ok |-> r.ok,
                     error |-> r.error, data |-> r.data]
    /\ UNCHANGED <<buckets, objects, content_store, disk, down, now, nextId,
                   nextUuid, writes, req, loop, gc, nextUpload, putLog,
                   bucket_quotas, placement, node_health, health_job, lifecycle,
                   ec, limiter>>

\* mp_manager.abort_upload(upload_id)
CallAbortUpload(upload_id) ==
    /\ LET r == abort_upload(multipart_uploads, part_files, upload_id)
       IN  /\ multipart_uploads' = r.uploads
           /\ part_files' = r.files
           /\ mp' = [op |-> "abort_upload", upload_id |-> upload_id, ok |-> TRUE,
                     error |-> "", data |-> <<>>]
    /\ UNCHANGED <<buckets, objects, content_store, disk, down, now, nextId,
                   nextUuid, writes, req, loop, gc, nextUpload, putLog,
                   bucket_quotas, placement, node_health, health_job, lifecycle,
                   ec, limiter>>

(***************************************************************************)
(* Environment: time and node failures                                     *)
(***************************************************************************)
Tick ==
    /\ now + TickDays <= MaxNow
    /\ now' = now + TickDays
    /\ UNCHANGED <<buckets, objects, content_store, disk, down, nextId, nextUuid,
                   writes, req, loop, gc, multipart_uploads, part_files, nextUpload,
                   putLog,
                   bucket_quotas, aside>>

NodeFail(n) ==
    /\ n \notin down
    /\ Cardinality(down) < MaxDown
    /\ down' = down \cup {n}
    /\ UNCHANGED <<buckets, objects, content_store, disk, now, nextId, nextUuid,
                   writes, req, loop, gc, multipart_uploads, part_files, nextUpload,
                   putLog,
                   bucket_quotas, aside>>

NodeRecover(n) ==
    /\ n \in down
    /\ down' = down \ {n}
    /\ UNCHANGED <<buckets, objects, content_store, disk, now, nextId, nextUuid,
                   writes, req, loop, gc, multipart_uploads, part_files, nextUpload,
                   putLog,
                   bucket_quotas, aside>>

(***************************************************************************)
(* Health monitor (health_monitor.py)                                      *)
(***************************************************************************)
\* What requests.get(.../internal/health, timeout=5) gives: a response with a
\* status code, or an exception.
Response(code) == [kind |-> "response", status_code |-> code]
ProbeOutcomes ==
    {Response(200), Response(204), Response(500),
     [kind |-> "Timeout", status_code |-> 0],
     [kind |-> "ConnectionError", status_code |-> 0]}
\* The round-trip times measured, in ms.
ProbeTimes == {1, 2}
\* The nodes whose answers vary; the others answer 200 in 1 ms.
VaryingNodes == {"node1", "node2"}

\* A probe that takes every 2xx answer as healthy.
check_node_Any2xx(h, outcome, response_time, t) ==
    IF outcome.kind = "response" /\ outcome.status_code \in 200..299
    THEN [h EXCEPT !.status = "healthy", !.response_time_ms = response_time,
                   !.error_message = <<>>, !.last_check = t]
    ELSE IF outcome.kind = "Timeout"
    THEN [h EXCEPT !.status = "unhealthy", !.error_message = <<"Timeout">>,
                   !.response_time_ms = None, !.last_check = t]
    ELSE IF outcome.kind = "ConnectionError"
    THEN [h EXCEPT !.status = "unhealthy", !.error_message = <<"Connection refused">>,
                   !.response_time_ms = None, !.last_check = t]
    ELSE [h EXCEPT !.status = "unhealthy",
                   !.error_message = <<"HTTP", outcome.status_code>>,
                   !.last_check = t]

\* HealthMonitor._check_node: the NodeHealthStatus h after a probe with the
\* given outcome at time t.  f"HTTP {code}" is <<"HTTP", code>>, an error
\* message of None is <<>>.
check_node(h, outcome, response_time, t) ==
    IF outcome.kind = "response" /\ outcome.status_code = 200
    THEN [h EXCEPT !.status = "healthy", !.response_time_ms = response_time,
                   !.error_message = <<>>, !.last_check = t]
    ELSE IF outcome.kind = "Timeout"
    THEN [h EXCEPT !.status = "unhealthy", !.error_message = <<"Timeout">>,
                   !.response_time_ms = None, !.last_check = t]
    ELSE IF outcome.kind = "ConnectionError"
    THEN [h EXCEPT !.status = "unhealthy", !.error_message = <<"Connection refused">>,
                   !.response_time_ms = None, !.last_check = t]
    ELSE [h EXCEPT !.status = "unhealthy",
                   !.error_message = <<"HTTP", outcome.status_code>>,
                   !.last_check = t]

\* The scheduler starts _check_all_nodes (one instance at a time).
HealthJobBegin ==
    /\ lifecycle.health_monitor = "running"
    /\ health_job = 0
    /\ health_job' = 1
    /\ UNCHANGED <<buckets, objects, content_store, disk, down, now, nextId,
                   nextUuid, writes, req, loop, gc, multipart_uploads, part_files,
                   nextUpload, putLog, bucket_quotas, mp, limiter, ec, placement, node_health,
                   lifecycle>>

\* The next _check_node of the scheduled _check_all_nodes.
ScheduledProbe(outcome, response_time) ==
    /\ health_job > 0
    /\ LET n == NODES_LIST[health_job]
       IN  /\ n \notin VaryingNodes => outcome = Response(200) /\ response_time = 1
           /\ node_health' = [node_health EXCEPT
                                 ![n] = check_node(@, outcome, response_time, now)]
    /\ health_job' = IF health_job = Len(NODES_LIST) THEN 0 ELSE health_job + 1
    /\ UNCHANGED <<buckets, objects, content_store, disk, down, now, nextId,
                   nextUuid, writes, req, loop, gc, multipart_uploads, part_files,
                   nextUpload, putLog, bucket_quotas, mp, limiter, ec, placement, lifecycle>>

(***************************************************************************)
(* rate_limiter.py                                                         *)
(***************************************************************************)
requests_per_minute == 2
\* In ticks of the limiter's clock.
window_size == 2
MaxSeconds == 5
MaxRequests == 5
PATHS == {"/buckets", "/admin/gc", "/health"}

RECURSIVE SelectSeq2(_, _)
\* [ts for ts in timestamps if ts > cutoff]
SelectSeq2(timestamps, cutoff) ==
    IF timestamps = <<>> THEN <<>>
    ELSE (IF Head(timestamps) > cutoff THEN <<Head(timestamps)>> ELSE <<>>)
         \o SelectSeq2(Tail(timestamps), cutoff)

\* A limiter that lets one more request in: > in place of >=.
is_allowed_OneMore(requests, ip, t) ==
    LET cutoff == t - window_size
        kept == SelectSeq2(requests[ip], cutoff)
        current_count == Len(kept)
    IN  IF current_count > requests_per_minute
        THEN [allowed |-> FALSE, remaining |-> 0,
              requests |-> [requests EXCEPT ![ip] = kept]]
        ELSE [allowed |-> TRUE, remaining |-> requests_per_minute - current_count - 1,
              requests |-> [requests EXCEPT ![ip] = Append(kept, t)]]

\* A limiter that counts the requests it rejects.
is_allowed_CountsRejected(requests, ip, t) ==
    LET cutoff == t - window_size
        kept == SelectSeq2(requests[ip], cutoff)
        current_count == Len(kept)
    IN  IF current_count >= requests_per_minute
        THEN [allowed |-> FALSE, remaining |-> 0,
              requests |-> [requests EXCEPT ![ip] = Append(kept, t)]]
        ELSE [allowed |-> TRUE, remaining |-> requests_per_minute - current_count - 1,
              requests |-> [requests EXCEPT ![ip] = Append(kept, t)]]

\* RateLimiter.is_allowed at clock reading t: [allowed, remaining] and the
\* table it leaves.
is_allowed(requests, ip, t) ==
    LET cutoff == t - window_size
        kept == SelectSeq2(requests[ip], cutoff)
        current_count == Len(kept)
    IN  IF current_count >= requests_per_minute
        THEN [allowed |-> FALSE, remaining |-> 0,
              requests |-> [requests EXCEPT ![ip] = kept]]
        ELSE [allowed |-> TRUE, remaining |-> requests_per_minute - current_count - 1,
              requests |-> [requests EXCEPT ![ip] = Append(kept, t)]]

\* time.time() moves on.
Clock ==
    /\ limiter.time < MaxSeconds
    /\ limiter' = [limiter EXCEPT !.time = @ + 1]
    /\ UNCHANGED <<buckets, objects, content_store, disk, down, now, nextId,
                   nextUuid, writes, req, loop, gc, multipart_uploads, part_files,
                   nextUpload, putLog, bucket_quotas, mp, placement, node_health,
                   health_job, lifecycle, ec>>

\* RateLimitMiddleware.dispatch up to call_next or the 429 answer.  It runs on
\* the event loop and awaits nothing before is_allowed has returned, so one
\* dispatch decides at a time; the handlers behind call_next run concurrently.
Dispatch(ip, path) ==
    /\ Len(limiter.history) + limiter.passed < MaxRequests
    /\ IF path \in {"/admin/gc", "/health"}
       THEN limiter' = [limiter EXCEPT !.passed = @ + 1, !.pending = @ + 1]
       ELSE LET r == is_allowed(limiter.requests, ip, limiter.time)
            IN  limiter' = [limiter EXCEPT
                              !.requests = r.requests,
                              !.pending = IF r.allowed THEN @ + 1 ELSE @,
                              !.history = Append(@,
                                  [ip |-> ip, ts |-> limiter.time,
                                   status |-> IF r.allowed THEN 200 ELSE 429,
                                   remaining |-> r.remaining])]
    /\ UNCHANGED <<buckets, objects, content_store, disk, down, now, nextId,
                   nextUuid, writes, req, loop, gc, multipart_uploads, part_files,
                   nextUpload, putLog, bucket_quotas, mp, placement, node_health,
                   health_job, lifecycle, ec>>

\* call_next(request) returns and dispatch answers with the handler's response.
CallNextReturn ==
    /\ limiter.pending > 0
    /\ limiter' = [limiter EXCEPT !.pending = @ - 1]
    /\ UNCHANGED <<buckets, objects, content_store, disk, down, now, nextId,
                   nextUuid, writes, req, loop, gc, multipart_uploads, part_files,
                   nextUpload, putLog, bucket_quotas, mp, placement, node_health,
                   health_job, lifecycle, ec>>

(***************************************************************************)
(* Gateway lifecycle (main.py startup_event, shutdown_event; scheduler.py)  *)
(***************************************************************************)
\* The process before startup_event.
NotStarted ==
    [state |-> "Idle", gc_scheduler |-> "none", health_monitor |-> "none",
     initial_check |-> 0, started |-> FALSE, gc_job |-> "idle", stopped |-> FALSE]

\* startup_event up to gc_scheduler_instance.start().
StartupGc ==
    /\ lifecycle.state = "Idle"
    /\ lifecycle' = [lifecycle EXCEPT !.state = "Running", !.gc_scheduler = "running"]
    /\ UNCHANGED <<buckets, objects, content_store, disk, down, now, nextId,
                   nextUuid, writes, req, loop, gc, multipart_uploads, part_files,
                   nextUpload, putLog, bucket_quotas, mp, limiter, ec, placement, node_health,
                   health_job>>

\* startup_event: HealthMonitor(...) and HealthMonitor.start() up to
\* scheduler.start(); the initial _check_all_nodes comes next.
StartupHealth ==
    /\ lifecycle.state = "Running"
    /\ lifecycle.health_monitor = "none"
    /\ lifecycle' = [lifecycle EXCEPT !.health_monitor = "running",
                                      !.initial_check = 1]
    /\ node_health' = [n \in NODES |-> UnknownHealth]
    /\ UNCHANGED <<buckets, objects, content_store, disk, down, now, nextId,
                   nextUuid, writes, req, loop, gc, multipart_uploads, part_files,
                   nextUpload, putLog, bucket_quotas, mp, limiter, ec, placement, health_job>>

\* The next _check_node of the initial check; after the last one
\* startup_event returns and the gateway accepts requests.
InitialProbe(outcome, response_time) ==
    /\ lifecycle.initial_check > 0
    /\ LET n == NODES_LIST[lifecycle.initial_check]
       IN  /\ n \notin VaryingNodes => outcome = Response(200) /\ response_time = 1
           /\ node_health' = [node_health EXCEPT
                                 ![n] = check_node(@, outcome, response_time, now)]
    /\ lifecycle' = IF lifecycle.initial_check = Len(NODES_LIST)
                    THEN [lifecycle EXCEPT !.initial_check = 0, !.started = TRUE]
                    ELSE [lifecycle EXCEPT !.initial_check = @ + 1]
    /\ UNCHANGED <<buckets, objects, content_store, disk, down, now, nextId,
                   nextUuid, writes, req, loop, gc, multipart_uploads, part_files,
                   nextUpload, putLog, bucket_quotas, mp, limiter, ec, placement, health_job>>

\* GCScheduler._run_gc starts a pass that finds no row to delete.
GcJobBegin ==
    /\ lifecycle.gc_scheduler = "running"
    /\ lifecycle.gc_job = "idle"
    /\ gc.pc = "idle"
    /\ OldObjects(objects, now) = {}
    /\ lifecycle' = [lifecycle EXCEPT !.gc_job = "running"]
    /\ UNCHANGED <<buckets, objects, content_store, disk, down, now, nextId,
                   nextUuid, writes, req, loop, gc, multipart_uploads, part_files,
                   nextUpload, putLog, bucket_quotas, mp, limiter, ec, placement, node_health,
                   health_job>>

\* That pass returns {"deleted_versions": 0}.
GcJobEnd ==
    /\ lifecycle.gc_job = "running"
    /\ lifecycle' = [lifecycle EXCEPT !.gc_job = "idle"]
    /\ gc' = [gc EXCEPT !.deleted_count = 0]
    /\ UNCHANGED <<buckets, objects, content_store, disk, down, now, nextId,
                   nextUuid, writes, req, loop, multipart_uploads, part_files,
                   nextUpload, putLog, bucket_quotas, mp, limiter, ec, placement, node_health,
                   health_job>>

\* shutdown_event enters gc_scheduler_instance.shutdown(): the scheduler
\* starts no further job.
ShutdownBegin ==
    /\ lifecycle.state = "Running"
    /\ lifecycle.started
    /\ lifecycle' = [lifecycle EXCEPT !.state = "ShuttingDown",
                                      !.gc_scheduler = "stopping"]
    /\ UNCHANGED <<buckets, objects, content_store, disk, down, now, nextId,
                   nextUuid, writes, req, loop, gc, multipart_uploads, part_files,
                   nextUpload, putLog, bucket_quotas, mp, limiter, ec, placement, node_health,
                   health_job>>

\* scheduler.shutdown(wait=True) of the GC scheduler returns once its running
\* job has ended; health_monitor_instance.shutdown() is entered.
ShutdownGc ==
    /\ lifecycle.gc_scheduler = "stopping"
    /\ lifecycle.gc_job = "idle"
    /\ gc.pc = "idle"
    /\ lifecycle' = [lifecycle EXCEPT !.gc_scheduler = "stopped",
                                      !.health_monitor = "stopping"]
    /\ UNCHANGED <<buckets, objects, content_store, disk, down, now, nextId,
                   nextUuid, writes, req, loop, gc, multipart_uploads, part_files,
                   nextUpload, putLog, bucket_quotas, mp, limiter, ec, placement, node_health,
                   health_job>>

\* A monitor shutdown that does not wait: scheduler.shutdown(wait=False).
ShutdownHealth_NoWait ==
    /\ lifecycle.health_monitor = "stopping"
    /\ lifecycle' = [lifecycle EXCEPT !.health_monitor = "stopped", !.stopped = TRUE]
    /\ UNCHANGED <<buckets, objects, content_store, disk, down, now, nextId,
                   nextUuid, writes, req, loop, gc, multipart_uploads, part_files,
                   nextUpload, putLog, bucket_quotas, mp, limiter, ec, placement, node_health,
                   health_job>>

\* scheduler.shutdown(wait=True) of the monitor returns once its running job
\* has ended; shutdown_event is over.
ShutdownHealth ==
    /\ lifecycle.health_monitor = "stopping"
    /\ health_job = 0
    /\ lifecycle' = [lifecycle EXCEPT !.health_monitor = "stopped", !.stopped = TRUE]
    /\ UNCHANGED <<buckets, objects, content_store, disk, down, now, nextId,
                   nextUuid, writes, req, loop, gc, multipart_uploads, part_files,
                   nextUpload, putLog, bucket_quotas, mp, limiter, ec, placement, node_health,
                   health_job>>

(***************************************************************************)
(* Specifications                                                          *)
(***************************************************************************)
Next ==
    \/ \E p \in Procs, b \in BucketNames, k \in KeyNames, body \in Bodies :
          S3PutBegin(p, b, k, body)
    \/ \E p \in Procs, b \in BucketNames, k \in KeyNames, body \in ApiBodies,
          c \in Consistencies :
          UploadEnsureBucket(p, b, k, body, c)
    \/ \E p \in Procs :
          \/ S3PutShards(p)
          \/ S3PutCommit(p)
          \/ UploadLookup(p)
          \/ WriteMetadata(p)
          \/ WriteContentHash(p)
          \/ Return(p)
    \/ \E b \in BucketNames : CreateBucket(b)
    \/ \E b \in BucketNames, k \in KeyNames : DeleteObject(b, k)
    \/ \E b \in BucketNames, k \in KeyNames : InitiateMultipart(b, k)
    \/ \E u \in 1..(nextUpload - 1), n \in 1..MaxParts, data \in Bodies :
          UploadPart(u, n, data)
    \/ \E b \in BucketNames, u \in 1..(nextUpload - 1) : CompleteMultipart(b, u)
    \/ \E u \in 1..(nextUpload - 1) : AbortMultipart(u)
    \/ ScheduledGcSelect
    \/ ScheduledGcSweep
    \/ TriggerGc
    \/ Tick

Spec == Init /\ [][Next]_vars

\* The write paths alone: no DELETE, no GC pass, no time passing.
NextWrites ==
    \/ \E p \in Procs, b \in BucketNames, k \in KeyNames, body \in Bodies :
          S3PutBegin(p, b, k, body)
    \/ \E p \in Procs, b \in BucketNames, k \in KeyNames, body \in ApiBodies,
          c \in Consistencies :
          UploadEnsureBucket(p, b, k, body, c)
    \/ \E p \in Procs :
          \/ S3PutShards(p)
          \/ S3PutCommit(p)
          \/ UploadLookup(p)
          \/ WriteMetadata(p)
          \/ WriteContentHash(p)
          \/ Return(p)
    \/ \E b \in BucketNames : CreateBucket(b)
    \/ \E b \in BucketNames, k \in KeyNames : InitiateMultipart(b, k)
    \/ \E u \in 1..(nextUpload - 1), n \in 1..MaxParts, data \in Bodies :
          UploadPart(u, n, data)
    \/ \E b \in BucketNames, u \in 1..(nextUpload - 1) : CompleteMultipart(b, u)
    \/ \E u \in 1..(nextUpload - 1) : AbortMultipart(u)

SpecWrites == Init /\ [][NextWrites]_vars

\* The placement functions alone.  MaxCount is more than the node list holds.
MaxCount == 7
RegionInputs == {Null, "us-east", "eu-west", "ap-south", "mars"}
PlacementImpls == {"config", "main"}
MaxCalls == 2

InitPlacement ==
    /\ InitStore
    /\ placement \in [impl : PlacementImpls, count : 0..MaxCount,
                       preferred_region : RegionInputs, calls : {<<>>}]
    /\ node_health = [n \in NODES |-> UnknownHealth]
    /\ health_job = 0
    /\ lifecycle = Serving
    /\ limiter = NoTraffic
    /\ mp = NoCall
    /\ ec = NoCodec

\* One call of get_nodes_for_shards(count, preferred_region) by a caller that
\* imports it from config (s3_api.py) or uses main.py's own.
SelectNodes ==
    /\ placement.impl # Null
    /\ Len(placement.calls) < MaxCalls
    /\ LET result == IF placement.impl = "config"
                     THEN config_get_nodes_for_shards(placement.count,
                                                      placement.preferred_region)
                     ELSE main_get_nodes_for_shards_region(placement.count,
                                                           placement.preferred_region)
       IN  placement' = [placement EXCEPT !.calls = Append(@, result)]
    /\ UNCHANGED <<buckets, objects, content_store, disk, down, now, nextId,
                   nextUuid, writes, req, loop, gc, multipart_uploads, part_files,
                   nextUpload, putLog, bucket_quotas, mp, limiter, ec, node_health, health_job,
                   lifecycle>>

\* The health monitor of a serving gateway, and the clock.
NextHealth ==
    \/ HealthJobBegin
    \/ \E outcome \in ProbeOutcomes, response_time \in ProbeTimes :
          ScheduledProbe(outcome, response_time)
    \/ Tick

SpecHealth == Init /\ [][NextHealth]_vars

\* The gateway process from before startup_event to the end of
\* shutdown_event, with its two schedulers.
InitLifecycle ==
    /\ InitStore
    /\ placement = NoPlacement
    /\ node_health = [n \in NODES |-> UnknownHealth]
    /\ health_job = 0
    /\ lifecycle = NotStarted
    /\ limiter = NoTraffic
    /\ mp = NoCall
    /\ ec = NoCodec

NextLifecycle ==
    \/ StartupGc
    \/ StartupHealth
    \/ \E outcome \in ProbeOutcomes, response_time \in ProbeTimes :
          InitialProbe(outcome, response_time)
    \/ HealthJobBegin
    \/ \E outcome \in ProbeOutcomes, response_time \in ProbeTimes :
          ScheduledProbe(outcome, response_time)
    \/ GcJobBegin
    \/ GcJobEnd
    \/ ShutdownBegin
    \/ ShutdownGc
    \/ ShutdownHealth

SpecLifecycle == InitLifecycle /\ [][NextLifecycle]_vars

\* A caller of ec.py: a blob and the K shards, in some order, that it will
\* decode from.
MaxBlob == 5
BYTES == {0, 1}
Blobs == UNION {[1..n -> BYTES] : n \in 0..MaxBlob}
ShardNums == {nums \in [1..K -> 0..(M - 1)] :
                 \A i, j \in 1..K : i # j => nums[i] # nums[j]}

InitCodec ==
    /\ InitStore
    /\ placement = NoPlacement
    /\ node_health = [n \in NODES |-> UnknownHealth]
    /\ health_job = 0
    /\ lifecycle = Serving
    /\ limiter = NoTraffic
    /\ mp = NoCall
    /\ ec \in {[NoCodec EXCEPT !.pc = "input", !.data = data, !.shard_nums = nums] :
                  data \in Blobs, nums \in ShardNums}

\* shards = encode_data(data)
Encode ==
    /\ ec.pc = "input"
    /\ ec' = [ec EXCEPT !.pc = "encoded", !.shards = encode_data(ec.data)]
    /\ UNCHANGED <<buckets, objects, content_store, disk, down, now, nextId,
                   nextUuid, writes, req, loop, gc, multipart_uploads, part_files,
                   nextUpload, putLog, bucket_quotas, mp, limiter, placement, node_health,
                   health_job, lifecycle>>

\* decode_data(the shards numbered shard_nums, shard_nums, len(data))
Decode ==
    /\ ec.pc = "encoded"
    /\ ec' = [ec EXCEPT
                !.pc = "decoded",
                !.decoded = decode_data([j \in 1..K |-> ec.shards[ec.shard_nums[j] + 1]],
                                        ec.shard_nums, Len(ec.data))]
    /\ UNCHANGED <<buckets, objects, content_store, disk, down, now, nextId,
                   nextUuid, writes, req, loop, gc, multipart_uploads, part_files,
                   nextUpload, putLog, bucket_quotas, mp, limiter, placement, node_health,
                   health_job, lifecycle>>

NextCodec == Encode \/ Decode

SpecCodec == InitCodec /\ [][NextCodec]_vars

\* The middleware in front of the handlers.
NextLimiter ==
    \/ Clock
    \/ \E ip \in IPS, path \in PATHS : Dispatch(ip, path)
    \/ CallNextReturn

SpecLimiter == Init /\ [][NextLimiter]_vars

\* The MultipartManager under its callers; an upload_id is one the manager
\* gave out.
NextMultipart ==
    \/ \E b \in BucketNames : CallInitiateUpload(b, "k1")
    \/ \E u \in 1..(nextUpload - 1), n \in PartNumbers, data \in PartData :
          CallUploadPart(u, n, data)
    \/ \E u \in 1..(nextUpload - 1) : CallCompleteUpload(u)
    \/ \E u \in 1..(nextUpload - 1) : CallAbortUpload(u)

SpecMultipart == Init /\ [][NextMultipart]_vars

\* The objects table under put_object_metadata alone.
NextMetadata ==
    \E bucket \in BucketNames, key \in KeyNames, size \in ObjectSizes :
        CallPutObjectMetadata(bucket, key, size)

SpecMetadata == Init /\ [][NextMetadata]_vars

NextPlacement == SelectNodes

SpecPlacement == InitPlacement /\ [][NextPlacement]_vars

\* The gateway with bucket quotas being set: the write routes, DELETE and
\* PUT /buckets/{bucket}/quota.
NextQuota ==
    \/ \E p \in Procs, b \in BucketNames, k \in KeyNames, body \in Bodies :
          S3PutBegin(p, b, k, body)
    \/ \E p \in Procs, b \in BucketNames, k \in KeyNames, body \in ApiBodies,
          c \in Consistencies :
          UploadEnsureBucket(p, b, k, body, c)
    \/ \E p \in Procs :
          \/ S3PutShards(p)
          \/ S3PutCommit(p)
          \/ UploadLookup(p)
          \/ WriteMetadata(p)
          \/ WriteContentHash(p)
          \/ Return(p)
    \/ \E b \in BucketNames : CreateBucket(b)
    \/ \E b \in BucketNames, q \in QuotaValues : SetBucketQuota(b, q)
    \/ \E b \in BucketNames, k \in KeyNames : DeleteObject(b, k)

SpecQuota == Init /\ [][NextQuota]_vars

\* The quota of a bucket is set while no request is in flight, so that every
\* write is gated by the quota in force when it commits.
SetBucketQuotaQuiet(bucket, quota) ==
    /\ \A p \in Procs : req[p].pc \in {"idle", "done"}
    /\ SetBucketQuota(bucket, quota)

\* Writers under quotas that do not change beneath a running write.
NextQuotaFixed ==
    \/ \E p \in Procs, b \in BucketNames, k \in KeyNames, body \in Bodies :
          S3PutBegin(p, b, k, body)
    \/ \E p \in Procs, b \in BucketNames, k \in KeyNames, body \in ApiBodies,
          c \in Consistencies :
          UploadEnsureBucket(p, b, k, body, c)
    \/ \E p \in Procs :
          \/ S3PutShards(p)
          \/ S3PutCommit(p)
          \/ UploadLookup(p)
          \/ WriteMetadata(p)
          \/ WriteContentHash(p)
          \/ Return(p)
    \/ \E b \in BucketNames : CreateBucket(b)
    \/ \E b \in BucketNames, q \in QuotaValues : SetBucketQuotaQuiet(b, q)
    \/ \E b \in BucketNames, k \in KeyNames : DeleteObject(b, k)

SpecQuotaFixed == Init /\ [][NextQuotaFixed]_vars

\* The gateway with storage nodes that stop answering and come back: the
\* write routes on one key, and failures of two of the nodes that hold data
\* shards (node1, node2) and of the two that hold check shards.
FaultBuckets == {"b1"}
FaultKeys == {"k1"}
FlakyNodes == {"node1", "node2", "node5", "node6"}

NextFaults ==
    \/ \E p \in Procs, b \in FaultBuckets, k \in FaultKeys, body \in Bodies :
          S3PutBegin(p, b, k, body)
    \/ \E p \in Procs, b \in FaultBuckets, k \in FaultKeys, body \in ApiBodies,
          c \in Consistencies :
          UploadEnsureBucket(p, b, k, body, c)
    \/ \E p \in Procs :
          \/ S3PutShards(p)
          \/ S3PutCommit(p)
          \/ UploadLookup(p)
          \/ WriteMetadata(p)
          \/ WriteContentHash(p)
          \/ Return(p)
    \/ \E b \in FaultBuckets : CreateBucket(b)
    \/ \E n \in FlakyNodes : NodeFail(n) \/ NodeRecover(n)

SpecFaults == Init /\ [][NextFaults]_vars

(***************************************************************************)
(* Properties                                                              *)
(***************************************************************************)
RowsOf(bucket, key) ==
    {o \in objects : o.bucket_name = bucket /\ o.object_key = key}

\* Two answered requests that overlapped in time: neither began after the
\* other had answered.
Concurrent(p, q) ==
    /\ p # q
    /\ req[p].pc = "done" /\ req[q].pc = "done"
    /\ p \notin req[q].after /\ q \notin req[p].after

\* q began after p had answered.
Successive(p, q) ==
    /\ p # q
    /\ req[p].pc = "done" /\ req[q].pc = "done"
    /\ p \in req[q].after

SameTarget(p, q) == req[p].bucket = req[q].bucket /\ req[p].key = req[q].key

\* The body of the write that created row o: the one its digest names or,
\* until the digest is on the row, the body of the request that inserted it.
WrittenBody(o) ==
    IF o.content_hash # <<>>
    THEN CHOOSE body \in Bodies : Sha256(body) = o.content_hash
    ELSE req[CHOOSE p \in Procs : req[p].pc = "meta" /\ req[p].obj = o.id].body

\* C1: for every (bucket, key), in every reachable state (writes, DELETEs and
\* GC passes interleaved in any way), at most one ObjectVersion row has
\* is_latest = true.
C1_AtMostOneLatest ==
    \A b \in BucketNames, k \in KeyNames : Cardinality(LatestRows(objects, b, k)) <= 1

\* Two writes to one key that overlapped in time have both committed: the key
\* has two versions, one of them the latest.
C1_Witness ==
    \E p, q \in Procs :
        /\ Concurrent(p, q) /\ SameTarget(p, q)
        /\ req[p].status = 200 /\ req[q].status = 200
        /\ Cardinality(RowsOf(req[p].bucket, req[p].key)) = 2
        /\ Cardinality(LatestRows(objects, req[p].bucket, req[p].key)) = 1

\* C2: two concurrent uploads of distinct bodies to one (bucket, key) through
\* the primary write path both succeed with distinct version-ids; the one
\* committed later is the only latest, and a GET without version-id answers
\* its body.
C2_ConcurrentUploadsBothSucceed ==
    \A p, q \in Procs :
        (/\ Concurrent(p, q) /\ SameTarget(p, q)
         /\ req[p].op = "api" /\ req[q].op = "api"
         /\ req[p].body # req[q].body)
        => /\ req[p].status = 200 /\ req[q].status = 200
           /\ req[p].obj # req[q].obj
           /\ (/\ req[p].obj < req[q].obj
               /\ \E o \in objects : o.id = req[p].obj
               /\ \E o \in objects : o.id = req[q].obj)
              => /\ \A o \in LatestRows(objects, req[q].bucket, req[q].key) :
                        o.id = req[q].obj
                 /\ GetAnswers(objects, disk, down, req[q].bucket, req[q].key, 0)
                        = {[status |-> 200, data |-> req[q].body]}

C4_ReadYourWrite ==
    \A o \in objects :
        ReadObject(disk, down, o) = [status |-> 200, data |-> WrittenBody(o)]

\* The layout entries of a ContentRow whose shard some node holds.
HeldShards(c) ==
    {j \in 1..Len(c.shards) :
        \E a \in DOMAIN disk :
            /\ a[1] = c.shards[j].node_id
            /\ a[3] = c.shards[j].shard_key
            /\ Retrievable(disk, down, a)}

\* C5: on a healthy fleet, every ContentRow with refcount > 0 has at least K
\* of its layout's shards retrievable from their nodes.
C5_ReferencedContentRetrievable ==
    \A c \in content_store : c.refcount > 0 => Cardinality(HeldShards(c)) >= K

\* C6: every ObjectVersion carries a content_hash for which a ContentRow
\* exists whose refcount is at least the number of ObjectVersions that
\* reference the hash.
C6_VersionsHaveContent ==
    \A o \in objects :
        \E c \in content_store :
            /\ c.content_hash = o.content_hash
            /\ c.refcount >= Cardinality({x \in objects : x.content_hash = o.content_hash})

\* The ContentRows with a positive refcount whose layout names the file a.
Owners(cs, a) ==
    {c \in cs : /\ c.refcount > 0
                /\ \E j \in 1..Len(c.shards) :
                      c.shards[j].node_id = a[1] /\ c.shards[j].shard_key = a[3]}

\* C7: no step (DELETE, scheduled GC, triggered GC) removes from a node a
\* shard of a ContentRow whose refcount is still positive.
C7_NoShardDeleteWhileReferenced ==
    [][\A a \in DOMAIN disk \ DOMAIN disk' : Owners(content_store', a) = {}]_vars

\* The content_store after releasing one reference to hash h.
Released(cs, h) ==
    {[c EXCEPT !.refcount = @ - 1] : c \in {x \in cs : x.content_hash = h /\ x.refcount > 1}}
        \cup {c \in cs : c.content_hash # h}

\* C8: a DELETE (the step that removes a latest row) lowers the refcount of
\* the row's ContentRow by exactly one and removes the ContentRow exactly when
\* the refcount reaches zero.
C8_DeleteReleasesContent ==
    [][\A o \in objects \ objects' :
          o.is_latest => content_store' = Released(content_store, o.content_hash)]_vars

\* The content_store after releasing one reference for every row of `rows`.
RECURSIVE ReleasedAll(_, _)
ReleasedAll(cs, rows) ==
    IF rows = {} THEN cs
    ELSE LET o == CHOOSE x \in rows : TRUE
         IN  ReleasedAll(Released(cs, o.content_hash), rows \ {o})

Readable(objs, d, dn) ==
    {o \in objs : o.is_latest /\ ReadObject(d, dn, o).status = 200}

\* C9: a GC pass removes only non-latest rows, lowers the refcount of the ContentRow of each row it removes
\* by one, removes a ContentRow and its shards only at refcount zero, and
\* leaves every latest version readable.
C9_GcReleasesAndKeepsLatest ==
    [][(ScheduledGcSweep \/ TriggerGc) =>
          /\ objects' \subseteq objects
          /\ \A o \in objects \ objects' : ~o.is_latest
          /\ content_store' = ReleasedAll(content_store, objects \ objects')
          /\ \A a \in DOMAIN disk \ DOMAIN disk' : Owners(content_store', a) = {}
          /\ Readable(objects, disk, down) \subseteq Readable(objects', disk', down')]_vars

\* C10: two successive uploads of the same bytes to the same (bucket, key),
\* the first finding no ContentRow for their digest: both succeed with
\* distinct version-ids that carry the same content_hash and shard layout,
\* the refcount is 2 and the second upload sends no shard PUT.
C10_IdenticalUploadsDedup ==
    \A p, q \in Procs :
        (/\ Successive(p, q) /\ SameTarget(p, q)
         /\ req[p].body = req[q].body
         /\ req[p].fresh
         /\ req[p].status # 404 /\ req[q].status # 404)
        => /\ req[p].status = 200 /\ req[q].status = 200
           /\ req[p].obj # req[q].obj
           /\ req[q].dedup /\ req[q].puts = 0
           /\ req[p].shards = req[q].shards
           /\ \A c \in ContentRows(content_store, req[p].hash) : c.refcount = 2

\* C11: two concurrent uploads of the same content, with no ContentRow for its
\* hash when they begin, both succeed; exactly one ContentRow exists for the
\* hash, one upload created it, the other bumped it, and its refcount is 2.
C11_ConcurrentIdenticalUploads ==
    \A p, q \in Procs :
        (/\ Concurrent(p, q)
         /\ req[p].body = req[q].body
         /\ req[p].fresh /\ req[q].fresh
         /\ req[p].status \notin {404, 507} /\ req[q].status \notin {404, 507})
        => /\ req[p].status = 200 /\ req[q].status = 200
           /\ req[p].dedup # req[q].dedup
           /\ Cardinality(ContentRows(content_store, req[p].hash)) = 1
           /\ \A c \in ContentRows(content_store, req[p].hash) : c.refcount = 2

\* The quorum of a write: K for consistency=strong, M otherwise.
Quorum(consistency) == IF consistency = "strong" THEN K ELSE M

\* C12: a write with a dedup miss issues M shard PUTs and commits exactly when
\* at least quorum of them succeed (K for consistency=strong, M otherwise);
\* below quorum it fails with 502.
C12_CommitIffQuorum ==
    \A p \in Procs :
        (/\ req[p].pc = "done" /\ ~req[p].dedup
         /\ req[p].status \notin {404, 507})
        => /\ req[p].puts = M
           /\ req[p].status = 200 <=> Len(req[p].shards) >= Quorum(req[p].consistency)
           /\ Len(req[p].shards) < Quorum(req[p].consistency) => req[p].status = 502

\* The steps of request p that belong to a write failing its quorum: the
\* fan-out that ends below quorum, and the answer 502.
QuorumFailStep(p) ==
    \/ /\ req[p].pc = "fanout" /\ req'[p].pc = "gathered"
       /\ Len(req'[p].shards) < Quorum(req[p].consistency)
    \/ /\ req[p].pc = "gathered" /\ req'[p].pc = "done" /\ req'[p].status = 502

\* C13: a write that fails to reach quorum creates no ContentRow and no
\* ObjectVersion and changes no row (the previous latest stays latest), and
\* every version reads back, on a healthy fleet, what it read before.
C13_QuorumFailureIsClean ==
    [][\A p \in Procs :
          QuorumFailStep(p) =>
              /\ objects' = objects
              /\ content_store' = content_store
              /\ \A o \in objects : ReadObject(disk', {}, o) = ReadObject(disk, {}, o)]_vars

\* A write to a key that has a readable latest version has failed its quorum
\* after storing some of its shards.
C13_Witness ==
    \E p \in Procs :
        /\ req[p].pc = "done" /\ req[p].status = 502
        /\ Len(req[p].shards) > 0
        /\ \E o \in LatestRows(objects, req[p].bucket, req[p].key) :
              /\ o.content_hash # <<>>
              /\ ReadObject(disk, {}, o) = [status |-> 200, data |-> WrittenBody(o)]

\* C14: when a write fails to reach quorum, the step that answers 502 has
\* sent a DELETE for every shard whose PUT had succeeded: no such shard is
\* left on a reachable node.
C14_OrphanCleanup ==
    [][\A p \in Procs :
          (req[p].pc = "gathered" /\ req'[p].pc = "done" /\ req'[p].status = 502)
          => \A j \in 1..Len(req[p].shards) :
                LET m == req[p].shards[j]
                IN  m.node_id \notin down
                    => Addr(m.node_id, req[p].bucket, m.shard_key) \notin DOMAIN disk']_vars

\* A layout as the set of its (index, node-id, shard-key) entries.
LayoutSet(layout) ==
    {<<layout[j].index, layout[j].node_id, layout[j].shard_key>> : j \in 1..Len(layout)}

\* The (index, node-id, shard-key) of the shard PUTs of upload `uuid` that
\* succeeded: the addresses PUT to that hold a file.
SucceededPuts(uuid) ==
    {<<a[3][3], a[1], a[3]>> : a \in {x \in DOMAIN putLog \cap DOMAIN disk : x[3][2] = uuid}}

LayoutIsSucceeded(layout) ==
    /\ layout # <<>>
    /\ Cardinality(LayoutSet(layout)) = Len(layout)
    /\ LayoutSet(layout) = SucceededPuts(layout[1].shard_key[2])

\* C15: the layout recorded in every ContentRow and every ObjectVersion holds
\* exactly the (index, node-id, shard-key) of the shard PUTs that succeeded,
\* and no entry of a PUT that failed.
C15_LayoutIsSuccessfulShards ==
    /\ \A c \in content_store : LayoutIsSucceeded(c.shards)
    /\ \A o \in objects : LayoutIsSucceeded(o.shards)

\* A write has committed although one or two of its shard PUTs failed.
C15_Witness ==
    \E o \in objects :
        /\ o.content_hash # <<>>
        /\ Len(o.shards) \in K..(M - 1)
        /\ \E c \in content_store : c.shards = o.shards

\* The entries of the layout of row o whose shard its node gives out now.
RetrievableShards(o) ==
    {j \in 1..Len(o.shards) :
        Retrievable(disk, down, Addr(o.shards[j].node_id, o.bucket_name,
                                     o.shards[j].shard_key))}

\* C16: a read of a version answers 200 with the version's bytes whenever at
\* least K shards of its recorded layout are retrievable, whichever they are,
\* and 502 when fewer than K are.
C16_DegradedRead ==
    \A o \in objects :
        IF Cardinality(RetrievableShards(o)) >= K
        THEN ReadObject(disk, down, o) = [status |-> 200, data |-> WrittenBody(o)]
        ELSE ReadObject(disk, down, o).status = 502

\* A version is read from exactly K shards, a data shard being out of reach.
C16_Witness ==
    \E o \in objects :
        /\ Cardinality(RetrievableShards(o)) = K
        /\ \E j \in 1..Len(o.shards) :
              o.shards[j].index < K /\ j \notin RetrievableShards(o)
        /\ ReadObject(disk, down, o) = [status |-> 200, data |-> WrittenBody(o)]

\* C17 (as stated): an object whose write committed with consistency=strong
\* reads back its bytes whenever at most two storage nodes are unreachable.
C17_StrongSurvivesTwoLosses ==
    \A p \in Procs :
        (/\ req[p].pc = "done" /\ req[p].status = 200
         /\ req[p].consistency = "strong"
         /\ Cardinality(down) <= 2)
        => \A o \in objects :
              o.id = req[p].obj
                  => ReadObject(disk, down, o) = [status |-> 200, data |-> req[p].body]

\* C17 (amended): a version whose layout records all M shards reads back its
\* bytes whenever at most two storage nodes are unreachable.
C17_FullLayoutSurvivesTwoLosses ==
    \A o \in objects :
        (/\ Len(o.shards) = M
         /\ \A j \in 1..M : Addr(o.shards[j].node_id, o.bucket_name,
                                  o.shards[j].shard_key) \in DOMAIN disk
         /\ Cardinality(down) <= 2)
        => ReadObject(disk, down, o) = [status |-> 200, data |-> WrittenBody(o)]

\* A version with all M shards stored is read while two nodes are
\* unreachable, one of them holding a data shard.
C17_Witness ==
    \E o \in objects :
        /\ Len(o.shards) = M
        /\ Cardinality(down) = 2
        /\ \E j \in 1..M : o.shards[j].index < K /\ o.shards[j].node_id \in down
        /\ ReadObject(disk, down, o) = [status |-> 200, data |-> WrittenBody(o)]

\* C18: a DELETE of (bucket, key) removes the latest row of the key and
\* changes no other row; after it the key has no latest row and a GET without
\* version-id answers 404; a key without a latest row gets one only by a write.
C18_DeleteDoesNotPromote ==
    [][\A b \in BucketNames, k \in KeyNames :
          /\ DeleteObject(b, k) =>
                /\ \E v \in LatestRows(objects, b, k) : objects' = objects \ {v}
                /\ LatestRows(objects', b, k) = {}
                /\ GetAnswers(objects', disk', down', b, k, 0)
                       = {[status |-> 404, data |-> <<>>]}
          /\ (LatestRows(objects, b, k) = {} /\ LatestRows(objects', b, k) # {}) =>
                \E p \in Procs :
                    /\ req[p].bucket = b /\ req[p].key = k
                    /\ req[p].pc \in {"hit_ref", "miss_content"}
                    /\ req'[p].pc = "meta"]_vars

\* A key whose latest version was deleted: it keeps an older version and has
\* no latest one.
C18_Witness ==
    \E b \in BucketNames, k \in KeyNames :
        /\ RowsOf(b, k) # {}
        /\ LatestRows(objects, b, k) = {}
        /\ GetAnswers(objects, disk, down, b, k, 0) = {[status |-> 404, data |-> <<>>]}

\* The bucket's usage as the quota counts it is within the bucket's quota.
WithinQuota(objs, quotas, bucket) ==
    /\ Cardinality(LatestOfBucket(objs, bucket)) <= get_quota(quotas, bucket).max_objects
    /\ SumSizes(LatestOfBucket(objs, bucket)) <= get_quota(quotas, bucket).max_size_bytes

\* C19: a bucket that is within its quota stays within it on every step that
\* leaves its quota unchanged: the count of latest versions is at most
\* max_objects and the sum of their sizes at most max_size_bytes, whichever
\* write path takes the step and however the writers interleave.
C19_QuotaNeverExceeded ==
    [][\A b \in BucketNames :
          (/\ get_quota(bucket_quotas', b) = get_quota(bucket_quotas, b)
           /\ WithinQuota(objects, bucket_quotas, b))
          => WithinQuota(objects', bucket_quotas', b)]_vars

\* C20: the quota gate of an upload answers 507 exactly when the bucket's
\* latest-version total size plus the blob size exceeds max_size_bytes or the
\* latest-version count plus one exceeds max_objects, for every blob size
\* (0 included) and for a blob that is already stored.
C20_QuotaGateExact ==
    [][\A p \in Procs :
          (req[p].pc = "read" /\ req'[p].pc # "read")
          => LET current == LatestOfBucket(objects, req[p].bucket)
                 quota == get_quota(bucket_quotas, req[p].bucket)
             IN  req'[p].status = 507
                    <=> \/ SumSizes(current) + Len(req[p].body) > quota.max_size_bytes
                        \/ Cardinality(current) + 1 > quota.max_objects]_vars

C22_MissCommitAtomic ==
    /\ \A c \in content_store :
          \E o \in objects : o.content_hash = c.content_hash
    /\ \A p \in Procs :
          (~req[p].dedup /\ req[p].obj # 0)
          => \A o \in objects : o.id = req[p].obj => o.content_hash = req[p].hash

\* C23: on a dedup hit the refcount increment and the insertion of the new
\* ObjectVersion take effect together: every step that increments the
\* refcount of a ContentRow also inserts a latest ObjectVersion with the row's
\* layout and leaves its key with exactly one latest version.
C23_HitCommitAtomic ==
    [][\A c \in content_store :
          (\E d \in content_store' :
              d.content_hash = c.content_hash /\ d.refcount = c.refcount + 1)
          => \E o \in objects' \ objects :
                /\ o.shards = c.shards /\ o.is_latest
                /\ LatestRows(objects', o.bucket_name, o.object_key) = {o}]_vars

\* C24 (as stated): a GC pass deletes only rows that are not latest and are
\* older than the retention threshold of the pass (7 days for the scheduled
\* pass, RETENTION_DAYS for the triggered one).
C24_GcDeletesOnlyOldNonLatest ==
    [][/\ ScheduledGcSweep =>
              \A o \in objects \ objects' : ~o.is_latest /\ o.created_at < now - 7
       /\ TriggerGc =>
              \A o \in objects \ objects' :
                  ~o.is_latest /\ o.created_at < now - RETENTION_DAYS]_vars

\* C24 (amended): a GC pass deletes only rows that are not latest; the
\* scheduled pass deletes only such rows older than 7 days, and the triggered
\* pass only such rows that are older than RETENTION_DAYS or are counted after
\* the MAX_VERSIONS_PER_OBJECT newest rows of their key.
C24_GcDeletesOnlyNonLatest ==
    [][/\ ScheduledGcSweep =>
              \A o \in objects \ objects' : ~o.is_latest /\ o.created_at < now - 7
       /\ TriggerGc =>
              \A o \in objects \ objects' :
                  /\ ~o.is_latest
                  /\ \/ o.created_at < now - RETENTION_DAYS
                     \/ VersionCount(objects, o) > MAX_VERSIONS_PER_OBJECT]_vars

\* A scheduled pass has deleted rows while a write was on its way, and the
\* latest version of a key is still there.
C24_Witness ==
    /\ gc.pc = "idle" /\ gc.deleted_count > 0
    /\ \E p \in Procs : req[p].pc \notin {"idle", "done"}
    /\ \E o \in objects : o.is_latest

\* The rows of (bucket, key) in a table.
VersionsOf(objs, bucket, key) ==
    {o \in objs : o.bucket_name = bucket /\ o.object_key = key}

\* C25: after a triggered GC pass every (bucket, key) retains at most
\* MAX_VERSIONS_PER_OBJECT versions, all of them among the newest
\* MAX_VERSIONS_PER_OBJECT it had, and its latest version is retained; what
\* the version-count pass removes is exactly the rest.
C25_TriggeredGcKeepsNewest ==
    [][TriggerGc =>
          \A b \in BucketNames, k \in KeyNames :
              LET before == VersionsOf(objects, b, k)
                  after == VersionsOf(objects', b, k)
                  newest == {o \in before :
                                VersionCount(objects, o) <= MAX_VERSIONS_PER_OBJECT}
              IN  /\ Cardinality(after) <= MAX_VERSIONS_PER_OBJECT
                  /\ after \subseteq newest
                  /\ newest \ after \subseteq AgedVersions(objects, now)
                  /\ LatestRows(objects, b, k) \subseteq after]_vars

\* A triggered pass has removed versions by count, and a key retains its
\* latest version.
C25_Witness ==
    /\ gc.result.versions_deleted > 0
    /\ \E o \in objects : o.is_latest /\ Cardinality(VersionsOf(objects, o.bucket_name,
                                                                o.object_key)) = 1

\* select_nodes of the spec: the region's nodes in declared order, then the
\* nodes of the other regions in declared order, cut to count.
RegionFirst(count, preferred_region) ==
    LET mine == SelectSeq(NODES_LIST, LAMBDA n : n \in Range(REGIONS[preferred_region]))
        others == SelectSeq(NODES_LIST, LAMBDA n : n \notin Range(REGIONS[preferred_region]))
    IN  SubSeq(mine \o others, 1, count)

\* C26: each call of the placement function fails with the capacity error
\* when count exceeds the number of nodes; otherwise it returns exactly count
\* nodes: with a known region that region's nodes first, then the others, in
\* declared order; with no region or an unknown one the first count nodes.
C26_SelectNodes ==
    \A i \in 1..Len(placement.calls) :
        LET r == placement.calls[i]
            count == placement.count
            region == placement.preferred_region
        IN  IF count > Len(NODES_LIST)
            THEN ~r.ok /\ r.error = "HTTPException(500)"
            ELSE /\ r.ok
                 /\ Len(r.nodes) = count
                 /\ r.nodes = IF region \in DOMAIN REGIONS
                              THEN RegionFirst(count, region)
                              ELSE SubSeq(NODES_LIST, 1, count)

\* C26 for the callers of config.get_nodes_for_shards.
C26_ConfigSelectNodes ==
    placement.impl = "config" => C26_SelectNodes

\* C27: placement is deterministic: two calls with the same count and region
\* under the same configuration, count being within the node list, both
\* return a node list, and the same one in the same order.
C27_PlacementDeterministic ==
    \A i, j \in 1..Len(placement.calls) :
        placement.count <= Len(NODES_LIST)
        => /\ placement.calls[i].ok /\ placement.calls[j].ok
           /\ placement.calls[i].nodes = placement.calls[j].nodes

\* C28: after a probe of a node its last_check is the time of the probe; its
\* status is healthy, with the measured round-trip time recorded, if and only
\* if the probe got a 2xx response; after any other response, a timeout or a
\* connection error the status is unhealthy and the error string is set.
C28_ProbeOutcome ==
    [][\A outcome \in ProbeOutcomes, response_time \in ProbeTimes :
          (ScheduledProbe(outcome, response_time) /\ health_job > 0)
          => LET h == node_health'[NODES_LIST[health_job]]
             IN  /\ h.last_check = now
                 /\ IF outcome.kind = "response" /\ outcome.status_code \in 200..299
                    THEN h.status = "healthy" /\ h.response_time_ms = response_time
                    ELSE h.status = "unhealthy" /\ h.error_message # <<>>]_vars

\* C29: the lifecycle state only moves Idle -> Running -> ShuttingDown; a
\* step on which a node is probed, the monitor's job begins or a scheduled GC
\* pass begins is taken only after startup has begun and before shutdown has
\* completed.
C29_LifecycleOrder ==
    [][/\ lifecycle'.state # lifecycle.state
           => <<lifecycle.state, lifecycle'.state>>
                  \in {<<"Idle", "Running">>, <<"Running", "ShuttingDown">>}
       /\ (\/ node_health' # node_health /\ lifecycle'.initial_check # 1
           \/ health_job' # health_job
           \/ lifecycle.gc_job = "idle" /\ lifecycle'.gc_job = "running"
           \/ gc.pc = "idle" /\ gc'.pc = "sweep")
          => lifecycle.state # "Idle" /\ ~lifecycle.stopped
       /\ lifecycle.stopped => lifecycle'.stopped]_vars

\* Shutdown has completed after probes found a node unhealthy.
C29_Witness ==
    /\ lifecycle.stopped /\ lifecycle.state = "ShuttingDown"
    /\ lifecycle.gc_scheduler = "stopped" /\ lifecycle.health_monitor = "stopped"
    /\ \E n \in NODES : node_health[n].status = "unhealthy"

\* C30: for every blob B, of length 0, 1, divisible by K or not, encode_data(B)
\* is M shards of ceil(|B| / K) bytes each, and decode_data of any K of them
\* with their numbers and original_size = |B| returns B.
C30_RoundTrip ==
    /\ ec.pc \in {"encoded", "decoded"}
          => /\ Len(ec.shards) = M
             /\ \A j \in 1..M :
                   LET n == ShardLen(ec.shards[j])
                   IN  n * K >= Len(ec.data) /\ (n - 1) * K < Len(ec.data)
    /\ ec.pc = "decoded" => ec.decoded.ok /\ ec.decoded.data = ec.data

\* A blob of K + 1 bytes ending in a zero byte came back from shards that
\* include both check shards, given out of order.
C30_Witness ==
    /\ ec.pc = "decoded"
    /\ Len(ec.data) = K + 1 /\ ec.data[K + 1] = 0
    /\ ec.shard_nums = <<5, 0, 4, 2>>
    /\ ec.decoded.ok /\ ec.decoded.data = ec.data

\* The requests of ip that the limiter let through with a clock reading in
\* the window (t - window_size, t].
AllowedInWindow(ip, t) ==
    {i \in 1..Len(limiter.history) :
        /\ limiter.history[i].ip = ip
        /\ limiter.history[i].status = 200
        /\ limiter.history[i].ts > t - window_size
        /\ limiter.history[i].ts <= t}

\* C31: for each client IP the limiter lets at most requests_per_minute
\* requests through in any sliding window, and a request that arrives when
\* the window already holds that many is answered 429, whatever requests are
\* still running behind the middleware.
C31_RateLimit ==
    /\ \A ip \in IPS, t \in 0..MaxSeconds :
          Cardinality(AllowedInWindow(ip, t)) <= requests_per_minute
    /\ \A i \in 1..Len(limiter.history) :
          LET h == limiter.history[i]
              before == {j \in AllowedInWindow(h.ip, h.ts) : j < i}
          IN  h.status = 429 <=> Cardinality(before) >= requests_per_minute

\* An IP hit the limit while its earlier requests were still running, and the
\* other IP was let through afterwards.
C31_Witness ==
    /\ limiter.pending >= requests_per_minute
    /\ \E i, j \in 1..Len(limiter.history) :
          /\ i < j
          /\ limiter.history[i].status = 429
          /\ limiter.history[j].status = 200
          /\ limiter.history[j].ip # limiter.history[i].ip
          /\ Cardinality(AllowedInWindow(limiter.history[i].ip, limiter.history[i].ts))
                = requests_per_minute

\* C38: a request answered 429 adds nothing to the IP's counted requests,
\* and a request that arrives when the IP has no counted request, or when
\* window_size has passed since its oldest counted request, is let through,
\* however many requests were rejected before.
C38_RejectedNotCounted ==
    [][Len(limiter'.history) > Len(limiter.history)
          => LET h == limiter'.history[Len(limiter'.history)]
                 counted == limiter.requests[h.ip]
             IN  /\ h.status = 429
                       => limiter'.requests[h.ip]
                             = SelectSeq2(counted, h.ts - window_size)
                 /\ (counted = <<>> \/ h.ts - counted[1] >= window_size)
                       => h.status = 200]_vars

\* An IP was let through, rejected twice, and let through again once
\* window_size had passed since its oldest counted request.
C38_Witness ==
    \E i, j, k, l \in 1..Len(limiter.history) :
        /\ i < j /\ j < k /\ k < l
        /\ \A x \in {i, j, k, l} : limiter.history[x].ip = limiter.history[i].ip
        /\ limiter.history[i].status = 200
        /\ limiter.history[j].status = 429
        /\ limiter.history[k].status = 429
        /\ limiter.history[l].status = 200
        /\ limiter.history[l].ts - limiter.history[i].ts >= window_size
        /\ limiter.history[l].ts - limiter.history[k].ts < window_size

\* C32: a session's row exists from initiate_upload until complete_upload or
\* abort_upload of its upload_id takes it away; once it is gone none of its
\* part files is left, and upload_part and complete_upload on its upload_id
\* fail with "Upload not found" and change nothing.
C32_SessionLifetime ==
    [][/\ \A u \in 1..(nextUpload - 1) :
             (Session(u) # {} /\ multipart_uploads' \cap Session(u) = {}
                 /\ \A v \in multipart_uploads' : v.upload_id # u)
                => mp'.op \in {"complete_upload", "abort_upload"} /\ mp'.upload_id = u
       /\ \A u \in 1..(nextUpload' - 1) :
             (\A v \in multipart_uploads' : v.upload_id # u)
                => \A f \in DOMAIN part_files' : f[1] # u
       /\ (mp' # mp /\ mp'.op \in {"upload_part", "complete_upload"}
              /\ Session(mp'.upload_id) = {})
             => /\ ~mp'.ok /\ mp'.error = "Upload not found"
                /\ UNCHANGED <<multipart_uploads, part_files>>
       /\ (mp'.op \in {"complete_upload", "abort_upload"} /\ mp' # mp)
             => \A v \in multipart_uploads' : v.upload_id # mp'.upload_id]_vars

\* A session with staged parts was completed, and a later upload_part on its
\* upload_id failed, while the other session is still open with its files.
C32_Witness ==
    /\ mp.op = "upload_part" /\ ~mp.ok /\ mp.error = "Upload not found"
    /\ Session(mp.upload_id) = {}
    /\ \A f \in DOMAIN part_files : f[1] # mp.upload_id
    /\ \E v \in multipart_uploads : Len(v.parts) > 0
    /\ DOMAIN part_files # {}

RECURSIVE LatestBytes(_, _, _)
\* The bytes last uploaded for each part number of the session, from part
\* number n upwards, in ascending order of part number, each once.
LatestBytes(upload, files, n) ==
    IF \A m \in PartNumbers : m < n THEN <<>>
    ELSE (IF \E j \in 1..Len(upload.parts) : upload.parts[j].part_number = n
          THEN files[<<upload.upload_id, n>>] ELSE <<>>)
         \o LatestBytes(upload, files, n + 1)

\* C39: complete_upload returns the parts' bytes in ascending order of part
\* number, each uploaded part number giving its last uploaded bytes once,
\* also when a part number was uploaded again or parts came out of order.
C39_CompleteConcatenates ==
    [][(mp' # mp /\ mp'.op = "complete_upload" /\ mp'.ok)
          => \A u \in Session(mp'.upload_id) :
                mp'.data = LatestBytes(u, part_files, 1)]_vars

\* The same for the sessions in which no part number was uploaded twice.
C39_DistinctPartNumbers ==
    [][(mp' # mp /\ mp'.op = "complete_upload" /\ mp'.ok)
          => \A u \in Session(mp'.upload_id) :
                (\A i, j \in 1..Len(u.parts) :
                    i # j => u.parts[i].part_number # u.parts[j].part_number)
                => mp'.data = LatestBytes(u, part_files, 1)]_vars

\* Two uploads to one bucket that ran concurrently and have both answered,
\* the first of which found no bucket and created it.
RacedForBucket(p, q) ==
    /\ p # q
    /\ req[p].op = "api" /\ req[q].op = "api"
    /\ req[p].bucket = req[q].bucket
    /\ req[p].created
    /\ req[p].pc = "done" /\ req[q].pc = "done"
    /\ p \notin req[q].after /\ q \notin req[p].after

\* C33: when two writes to a bucket that does not exist yet run concurrently,
\* the bucket is created once, by one of them, and both writes succeed.
C33_BothWritesSucceed ==
    \A p, q \in Procs :
        RacedForBucket(p, q)
           => /\ req[p].bucket \in buckets
              /\ ~req[q].created
              /\ req[p].status = 200 /\ req[q].status = 200

\* What holds of the two writes: the bucket is created once, and a write that
\* failed is one of new content, ended 500 by the placement.
C33_RaceFailsNoWrite ==
    \A p, q \in Procs :
        RacedForBucket(p, q)
           => /\ req[p].bucket \in buckets
              /\ ~req[q].created
              /\ \A r \in {p, q} :
                    \/ req[r].status = 200
                    \/ req[r].status = 500 /\ ~req[r].dedup

\* C34: on the same rows, files and reachable nodes the scheduled pass and
\* the pass of POST /admin/gc remove the same rows and leave the same files.
C34_GcPassesEquivalent ==
    LET old_objects == OldObjects(objects, now)
        v == OldVersions(objects)
        a == AgedVersions(objects \ v, now)
    IN  /\ old_objects = v \cup a
        /\ NodeDelete(disk, DeleteTargets(old_objects, down))
              = NodeDelete(NodeDelete(disk, DeleteTargets(v, down)),
                           DeleteTargets(a, down))

\* C35: put_object_metadata for (bucket, key) leaves the rows of every other
\* (bucket, key) and the non-latest rows of the key as they are, changes of
\* the key's latest rows nothing but is_latest, to false, and adds one row,
\* the new latest of the key.
C35_PutMetadataFrame ==
    [][\A bucket \in BucketNames, key \in KeyNames, size \in ObjectSizes :
          CallPutObjectMetadata(bucket, key, size)
             => LET mine(o) == o.bucket_name = bucket /\ o.object_key = key
                IN  /\ \A o \in objects :
                          (~mine(o) \/ ~o.is_latest) => o \in objects'
                    /\ \A o \in objects :
                          (mine(o) /\ o.is_latest)
                             => [o EXCEPT !.is_latest = FALSE] \in objects'
                    /\ Cardinality(objects') = Cardinality(objects) + 1
                    /\ \E n \in objects' :
                          /\ mine(n) /\ n.is_latest /\ n.size_bytes = size
                          /\ \A o \in objects : o.id # n.id /\ o.version_id # n.version_id]_vars

\* A key has a latest version put after an earlier one, which is kept as a
\* non-latest row, beside the latest row of another key of the bucket.
C35_Witness ==
    \E n, o, x \in objects :
        /\ n.bucket_name = o.bucket_name /\ n.object_key = o.object_key
        /\ n.is_latest /\ ~o.is_latest /\ o.id < n.id
        /\ x.bucket_name = n.bucket_name /\ x.object_key # n.object_key
        /\ x.is_latest /\ x.id < n.id

\* C36: a call of the placement function that succeeds, for a count within
\* the node list and any region (set, unset or unknown), returns exactly
\* count nodes, no node twice.
C36_PlacementDistinct ==
    \A i \in 1..Len(placement.calls) :
        LET r == placement.calls[i]
        IN  (r.ok /\ placement.count <= Len(NODES_LIST))
               => /\ Len(r.nodes) = placement.count
                  /\ \A a, b \in 1..Len(r.nodes) : a # b => r.nodes[a] # r.nodes[b]
                  /\ \A a \in 1..Len(r.nodes) : r.nodes[a] \in NODES

\* The M shards of a write were placed with a region whose nodes are not the
\* first of the list.
C36_Witness ==
    /\ placement.count = M
    /\ placement.preferred_region = "eu-west"
    /\ Len(placement.calls) > 0
    /\ placement.calls[1].ok
    /\ Cardinality(Range(placement.calls[1].nodes)) = M

\* C37: in every state of the health map a node with status unhealthy has no
\* response time, and a node has status unknown exactly when it was never
\* probed (its last_check is None).
C37_HealthMapConsistent ==
    \A n \in NODES :
        /\ node_health[n].status = "unhealthy" => node_health[n].response_time_ms = None
        /\ node_health[n].status = "unknown" <=> node_health[n].last_check = None

\* The second half alone.
C37_UnknownIffNeverProbed ==
    \A n \in NODES :
        node_health[n].status = "unknown" <=> node_health[n].last_check = None

====
